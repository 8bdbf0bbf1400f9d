---------------------------- MODULE StoreProofs ----------------------------
(***************************************************************************)
(* Theorems about the two stores, for any clients, boards, messages and    *)
(* limits.  RedbStore: its committed tables always agree, it implements    *)
(* Store, it loses nothing it acknowledged, and its writers never block    *)
(* each other for good.  MemoryStore: outside put_message its two maps     *)
(* agree, it implements Store, it loses nothing, and there is one way in   *)
(* which it can deadlock.                                                  *)
(***************************************************************************)
EXTENDS RedbStore, MemoryStore, FiniteSetTheorems, NaturalsInduction,
        WellFoundedInduction, TLAPS

\* The index idx lists the messages msgs, each once and on its own board.
Matches(msgs, idx) ==
  /\ \A s \in Slugs : \A i \in 1..Len(idx[s]) : idx[s][i] \in msgs /\ BoardOf[idx[s][i]] = s
  /\ \A m \in msgs : \E i \in 1..Len(idx[BoardOf[m]]) : idx[BoardOf[m]][i] = m
  /\ \A s \in Slugs : \A i, j \in 1..Len(idx[s]) : idx[s][i] = idx[s][j] => i = j

With(idx, m) == [idx EXCEPT ![BoardOf[m]] = Append(@, m)]

\* The open transaction is the committed state and the one message its writer
\* adds.
Staged(c) ==
  /\ writer = c
  /\ arg[c] \in Msgs \ MESSAGES
  /\ txMessages = MESSAGES \cup {arg[c]}
  /\ txIndex = With(BOARD_INDEX, arg[c])

\* What a client's program counter says of the rest of its state.
ClientInv(c) ==
  /\ pc[c] = "put" => arg[c] \in Msgs
  /\ pc[c] = "commit" => Staged(c)
  /\ writer = c => pc[c] = "commit"
  /\ pc[c] # "fetch" => todo[c] = <<>> /\ got[c] = <<>>
  /\ \A i \in 1..Len(todo[c]) : todo[c][i] \in MESSAGES

Types == TypeOK /\ out = [c \in Clients |-> out[c]]

Inv == Types /\ Matches(MESSAGES, BOARD_INDEX) /\ \A c \in Clients : ClientInv(c)

----------------------------------------------------------------------------
(* Sequences and indexes *)

\* Moving the head of one sequence to the end of another.
LEMMA MoveHead ==
  ASSUME NEW S, NEW s \in Seq(S), NEW t \in Seq(S), t # <<>>
  PROVE  /\ Head(t) \in S /\ Tail(t) \in Seq(S) /\ Append(s, Head(t)) \in Seq(S)
         /\ \A i \in 1..Len(Tail(t)) : i + 1 \in 1..Len(t) /\ Tail(t)[i] = t[i + 1]
         /\ 1 \in 1..Len(t) /\ Head(t) = t[1]
  OBVIOUS

\* The empty sequence is neutral.
LEMMA EmptySeq ==
  ASSUME NEW S, NEW s \in Seq(S)
  PROVE  s \o <<>> = s /\ <<>> \o s = s
  OBVIOUS

\* Pushing an id on its board's index keeps the index an index.
LEMMA WithType ==
  ASSUME NEW idx \in [Slugs -> Seq(Msgs)], NEW m \in Msgs
  PROVE  /\ With(idx, m) \in [Slugs -> Seq(Msgs)]
         /\ BoardOf[m] \in Slugs
         /\ \A s \in Slugs \ {BoardOf[m]} : With(idx, m)[s] = idx[s]
         /\ With(idx, m)[BoardOf[m]] = Append(idx[BoardOf[m]], m)
  BY StoreAssumption DEF With

\* An index that lists the messages still does when one is added to both.
LEMMA AddMatches ==
  ASSUME NEW idx \in [Slugs -> Seq(Msgs)], NEW msgs \in SUBSET Msgs,
         Matches(msgs, idx), NEW m \in Msgs \ msgs
  PROVE  Matches(msgs \cup {m}, With(idx, m))
<1> DEFINE b == BoardOf[m]
           new == With(idx, m)
           all == msgs \cup {m}
           n == Len(idx[b])
<1>1. /\ new \in [Slugs -> Seq(Msgs)] /\ b \in Slugs
      /\ \A s \in Slugs \ {b} : new[s] = idx[s]
      /\ new[b] = Append(idx[b], m)
    BY WithType
<1>2. /\ n \in Nat /\ Len(new[b]) = n + 1 /\ new[b][n + 1] = m
      /\ \A i \in 1..n : new[b][i] = idx[b][i]
    BY <1>1
<1> HIDE DEF new, n, b
<1>3. ASSUME NEW s \in Slugs, NEW i \in 1..Len(new[s])
      PROVE  new[s][i] \in all /\ BoardOf[new[s][i]] = s
  <2>1. CASE s # b
      BY <1>1, <1>3, <2>1 DEF Matches
  <2>2. CASE s = b /\ i = n + 1
      BY <1>2, <2>2 DEF b
  <2>3. CASE s = b /\ i # n + 1
    <3>1. i \in 1..n
        BY <1>2, <2>3
    <3> QED
        BY <1>1, <1>2, <2>3, <3>1 DEF Matches, n
  <2> QED
      BY <2>1, <2>2, <2>3
<1>4. ASSUME NEW k \in all
      PROVE  \E i \in 1..Len(new[BoardOf[k]]) : new[BoardOf[k]][i] = k
  <2>1. CASE k = m
      BY <1>2, <2>1 DEF b
  <2>2. CASE k # m
    <3>1. PICK i \in 1..Len(idx[BoardOf[k]]) : idx[BoardOf[k]][i] = k
        BY <2>2 DEF Matches
    <3>2. CASE BoardOf[k] = b
      <4>1. i \in 1..n /\ i \in 1..(n + 1)
          BY <1>2, <3>1, <3>2 DEF n
      <4> QED
          BY <1>2, <3>1, <3>2, <4>1
    <3>3. CASE BoardOf[k] # b
      <4>1. BoardOf[k] \in Slugs
          BY StoreAssumption
      <4> QED
          BY <1>1, <3>1, <3>3, <4>1
    <3> QED
        BY <3>2, <3>3
  <2> QED
      BY <2>1, <2>2
<1>5. ASSUME NEW s \in Slugs, NEW i \in 1..Len(new[s]), NEW j \in 1..Len(new[s]),
             new[s][i] = new[s][j]
      PROVE  i = j
  <2>1. CASE s # b
      BY <1>1, <1>5, <2>1 DEF Matches
  <2>2. CASE s = b
    <3>1. ASSUME NEW x \in 1..n
          PROVE  new[b][x] # m /\ new[b][x] = idx[b][x]
        BY <1>1, <1>2 DEF Matches, n
    <3>2. /\ i = n + 1 \/ i \in 1..n
          /\ j = n + 1 \/ j \in 1..n
        BY <1>2, <2>2
    <3>3. CASE i \in 1..n /\ j \in 1..n
      <4>1. idx[b][i] = idx[b][j]
          BY <1>5, <2>2, <3>1, <3>3
      <4> QED
          BY <1>1, <3>3, <4>1 DEF Matches, n
    <3>4. CASE i = n + 1 /\ j \in 1..n
        BY <1>2, <1>5, <2>2, <3>1, <3>4
    <3>5. CASE i \in 1..n /\ j = n + 1
        BY <1>2, <1>5, <2>2, <3>1, <3>5
    <3> QED
        BY <3>2, <3>3, <3>4, <3>5
  <2> QED
      BY <2>1, <2>2
<1> QED
    BY <1>3, <1>4, <1>5 DEF Matches, new

\* The invariant's form of TablesAgree.
LEMMA MatchesAgree ==
  ASSUME TypeOK, Matches(MESSAGES, BOARD_INDEX)
  PROVE  /\ TablesAgree
         /\ \A m \in Msgs : m \in MESSAGES <=> m \in ToSet(BOARD_INDEX[BoardOf[m]])
         /\ Abstract!Stored = MESSAGES
<1>1. \A s \in Slugs : DOMAIN BOARD_INDEX[s] = 1..Len(BOARD_INDEX[s])
    BY DEF TypeOK
<1>2. \A m \in MESSAGES : BoardOf[m] \in Slugs
    BY StoreAssumption DEF TypeOK
<1>3. \A s \in Slugs : ToSet(BOARD_INDEX[s]) = {BOARD_INDEX[s][i] : i \in 1..Len(BOARD_INDEX[s])}
    BY <1>1 DEF ToSet
<1>4. ASSUME NEW s \in Slugs, NEW m
      PROVE  m \in ToSet(BOARD_INDEX[s]) <=> m \in MESSAGES /\ BoardOf[m] = s
  <2>1. ASSUME m \in ToSet(BOARD_INDEX[s])
        PROVE  m \in MESSAGES /\ BoardOf[m] = s
    <3>1. PICK i \in 1..Len(BOARD_INDEX[s]) : m = BOARD_INDEX[s][i]
        BY <1>3, <2>1
    <3> QED
        BY <3>1 DEF Matches
  <2>2. ASSUME m \in MESSAGES, BoardOf[m] = s
        PROVE  m \in ToSet(BOARD_INDEX[s])
    <3>1. PICK i \in 1..Len(BOARD_INDEX[s]) : BOARD_INDEX[s][i] = m
        BY <2>2 DEF Matches
    <3> QED
        BY <1>3, <3>1
  <2> QED
      BY <2>1, <2>2
<1>5. UNION {ToSet(BOARD_INDEX[s]) : s \in Slugs} = MESSAGES
    BY <1>2, <1>4
<1>6. \A s \in Slugs : IsInjective(BOARD_INDEX[s])
    BY <1>1 DEF Matches, IsInjective
<1>7. Abstract!Stored = UNION {ToSet(BOARD_INDEX[s]) : s \in Slugs}
    BY DEF Abstract!Stored, Abstract!ToSet, ToSet
<1> QED
    BY <1>4, <1>5, <1>6, <1>7, StoreAssumption DEF TablesAgree, Agree

----------------------------------------------------------------------------
(* The invariant *)

\* A new file satisfies the invariant.
LEMMA InvInit == Init => Inv
<1> SUFFICES ASSUME Init PROVE Inv
    OBVIOUS
<1>1. Types
    BY StoreAssumption DEF Init, Types, TypeOK
<1>2. Matches(MESSAGES, BOARD_INDEX)
    BY DEF Init, Matches
<1>3. ASSUME NEW c \in Clients
      PROVE  ClientInv(c)
    BY StoreAssumption DEF Init, ClientInv
<1> QED
    BY <1>1, <1>2, <1>3 DEF Inv

\* A client that answers is idle, and the other clients are as they were.
LEMMA AnswerEffect ==
  ASSUME Inv, NEW c \in Clients, NEW r, Answer(c, r)
  PROVE  /\ out' = [d \in Clients |-> out'[d]]
         /\ pc' \in [Clients -> {"idle", "put", "commit", "fetch"}]
         /\ arg' \in [Clients -> Msgs \cup {None}]
         /\ todo' \in [Clients -> Seq(Msgs)] /\ got' \in [Clients -> Seq(Msgs)]
         /\ pc'[c] = "idle" /\ todo'[c] = <<>> /\ got'[c] = <<>> /\ out'[c] = r
         /\ \A d \in Clients \ {c} :
              /\ pc'[d] = pc[d] /\ arg'[d] = arg[d] /\ todo'[d] = todo[d]
              /\ got'[d] = got[d] /\ out'[d] = out[d]
<1>1. DOMAIN out = Clients
    BY DEF Inv, Types
<1>2. out' = [d \in Clients |-> IF d = c THEN r ELSE out[d]]
    BY <1>1 DEF Answer
<1>3. out' = [d \in Clients |-> out'[d]]
    BY <1>2
<1>4. out'[c] = r /\ \A d \in Clients \ {c} : out'[d] = out[d]
    BY <1>2
<1> QED
    BY <1>3, <1>4 DEF Inv, Types, TypeOK, Answer

\* While the tables and the transaction stay as they are, a client whose own
\* state stays as it is keeps its invariant.
LEMMA Bystander ==
  ASSUME NEW d \in Clients, ClientInv(d),
         pc'[d] = pc[d], arg'[d] = arg[d], todo'[d] = todo[d], got'[d] = got[d],
         UNCHANGED <<MESSAGES, BOARD_INDEX, writer, txMessages, txIndex>>
  PROVE  ClientInv(d)'
  BY DEF ClientInv, Staged

\* An idle client keeps its invariant.
LEMMA Resting ==
  ASSUME NEW c \in Clients, pc'[c] = "idle", todo'[c] = <<>>, got'[c] = <<>>, writer' # c
  PROVE  ClientInv(c)'
  BY DEF ClientInv

\* Calls that read: the answer is all that changes.
LEMMA ReadInv ==
  ASSUME Inv, NEW c \in Clients, NEW r, Answer(c, r), writer # c,
         UNCHANGED <<tables, txVars>>
  PROVE  Inv'
<1>1. Types'
    BY AnswerEffect DEF Inv, Types, TypeOK, tables, txVars
<1>2. Matches(MESSAGES, BOARD_INDEX)'
    BY DEF Inv, Matches, tables
<1>3. ASSUME NEW d \in Clients
      PROVE  ClientInv(d)'
  <2>1. CASE d = c
      BY <2>1, AnswerEffect, Resting DEF txVars
  <2>2. CASE d # c
      BY <2>2, AnswerEffect, Bystander DEF Inv, tables, txVars
  <2> QED
      BY <2>1, <2>2
<1> QED
    BY <1>1, <1>2, <1>3 DEF Inv

\* A client without a transaction is not the writer.
LEMMA NotWriter ==
  ASSUME Inv, NEW c \in Clients, pc[c] # "commit"
  PROVE  writer # c
  BY DEF Inv, ClientInv

\* put_message is called.
LEMMA CallPutInv ==
  ASSUME Inv, NEW c \in Clients, NEW m \in Msgs, CallPut(c, m)
  PROVE  Inv'
<1>1. /\ pc'[c] = "put" /\ arg'[c] = m /\ todo'[c] = <<>> /\ got'[c] = <<>>
      /\ \A d \in Clients \ {c} :
           pc'[d] = pc[d] /\ arg'[d] = arg[d] /\ todo'[d] = todo[d] /\ got'[d] = got[d]
    BY DEF CallPut, Inv, Types, TypeOK, ClientInv
<1>2. Types'
    BY DEF CallPut, Inv, Types, TypeOK, tables, txVars
<1>3. Matches(MESSAGES, BOARD_INDEX)'
    BY DEF CallPut, Inv, Matches, tables
<1>4. writer' # c
    BY NotWriter DEF CallPut, txVars
<1>5. ASSUME NEW d \in Clients
      PROVE  ClientInv(d)'
  <2>1. CASE d = c
      BY <1>1, <1>4, <2>1 DEF ClientInv
  <2>2. CASE d # c
      BY <1>1, <2>2, Bystander DEF CallPut, Inv, tables, txVars
  <2> QED
      BY <2>1, <2>2
<1> QED
    BY <1>2, <1>3, <1>5 DEF Inv

\* The write transaction: it stages the message its client brought.
LEMMA PutStageInv ==
  ASSUME Inv, NEW c \in Clients, PutStage(c)
  PROVE  Inv'
<1>0. pc[c] = "put" /\ writer = None /\ UNCHANGED tables /\ arg[c] \in Msgs
      /\ BOARD_INDEX \in [Slugs -> Seq(Msgs)] /\ MESSAGES \subseteq Msgs
    BY DEF PutStage, Inv, Types, TypeOK, ClientInv
<1>1. CASE Answer(c, PutOk) /\ UNCHANGED txVars
    BY <1>0, <1>1, ReadInv, NotWriter DEF tables, txVars
<1>2. CASE /\ arg[c] \notin MESSAGES
           /\ writer' = c
           /\ txMessages' = MESSAGES \cup {arg[c]}
           /\ txIndex' = [BOARD_INDEX EXCEPT ![BoardOf[arg[c]]] = Append(@, arg[c])]
           /\ pc' = [pc EXCEPT ![c] = "commit"]
           /\ UNCHANGED <<arg, todo, got, out>>
  <2>1. txIndex' = With(BOARD_INDEX, arg[c])
      BY <1>2 DEF With
  <2>2. txIndex' \in [Slugs -> Seq(Msgs)] /\ txMessages' \subseteq Msgs
      BY <1>0, <1>2, <2>1, WithType
  <2>3. Types'
      BY <1>0, <1>2, <2>2 DEF Inv, Types, TypeOK, tables
  <2>4. Matches(MESSAGES, BOARD_INDEX)'
      BY <1>0 DEF Inv, Matches, tables
  <2>5. /\ pc'[c] = "commit" /\ todo'[c] = <<>> /\ got'[c] = <<>>
        /\ \A d \in Clients \ {c} : pc'[d] = pc[d]
      BY <1>0, <1>2 DEF Inv, Types, TypeOK, ClientInv
  <2>6. ASSUME NEW d \in Clients
        PROVE  ClientInv(d)'
    <3>1. CASE d = c
        BY <1>0, <1>2, <2>1, <2>5, <3>1 DEF ClientInv, Staged, With, tables
    <3>2. CASE d # c
      <4>1. pc[d] # "commit"
          BY <1>0, StoreAssumption DEF Inv, ClientInv, Staged
      <4> QED
          BY <1>0, <1>2, <2>5, <3>2, <4>1 DEF Inv, ClientInv, tables
    <3> QED
        BY <3>1, <3>2
  <2> QED
      BY <2>3, <2>4, <2>6 DEF Inv
<1> QED
    BY <1>1, <1>2 DEF PutStage

\* The commit: what was staged is added to both tables at once.
LEMMA PutCommitInv ==
  ASSUME Inv, NEW c \in Clients, PutCommit(c)
  PROVE  Inv'
<1>0. /\ Staged(c) /\ Answer(c, PutOk) /\ DropTx
      /\ MESSAGES' = MESSAGES \cup {arg[c]} /\ BOARD_INDEX' = With(BOARD_INDEX, arg[c])
      /\ UNCHANGED <<BOARDS, AGENT_PERSONAS>>
    BY DEF PutCommit, Inv, ClientInv, Staged
<1>1. BOARD_INDEX \in [Slugs -> Seq(Msgs)] /\ MESSAGES \in SUBSET Msgs /\ arg[c] \in Msgs \ MESSAGES
    BY <1>0 DEF Staged, Inv, Types, TypeOK
<1>2. BOARD_INDEX' \in [Slugs -> Seq(Msgs)] /\ MESSAGES' \subseteq Msgs
    BY <1>0, <1>1, WithType
<1>3. writer' = None /\ txMessages' \subseteq Msgs /\ txIndex' \in [Slugs -> Seq(Msgs)]
    BY <1>0 DEF DropTx
<1>4. Types'
    BY <1>0, <1>2, <1>3, AnswerEffect DEF Inv, Types, TypeOK
<1>5. Matches(MESSAGES', BOARD_INDEX')
    BY <1>0, <1>1, AddMatches DEF Inv
<1>6. Matches(MESSAGES, BOARD_INDEX)'
    BY <1>5 DEF Matches
<1>7. ASSUME NEW d \in Clients
      PROVE  ClientInv(d)'
  <2>0. writer' # d
      BY <1>3, StoreAssumption
  <2>1. CASE d = c
      BY <1>0, <2>0, <2>1, AnswerEffect, Resting
  <2>2. CASE d # c
    <3>1. pc[d] # "commit"
        BY <1>0, <2>2 DEF Inv, ClientInv, Staged
    <3>2. MESSAGES \subseteq MESSAGES'
        BY <1>0
    <3>3. /\ pc'[d] = pc[d] /\ arg'[d] = arg[d] /\ todo'[d] = todo[d] /\ got'[d] = got[d]
        BY <1>0, <2>2, AnswerEffect
    <3> QED
        BY <2>0, <3>1, <3>2, <3>3 DEF Inv, ClientInv
  <2> QED
      BY <2>1, <2>2
<1> QED
    BY <1>4, <1>6, <1>7 DEF Inv

\* A listing reads the index: what it has to fetch is stored.
LEMMA ListIndexInv ==
  ASSUME Inv, NEW c \in Clients, NEW s \in Slugs, NEW n \in Limits, ListIndex(c, s, n)
  PROVE  Inv'
<1> DEFINE ids == BOARD_INDEX[s]
           start == IF n < Len(ids) THEN Len(ids) - n ELSE 0
           w == SubSeq(ids, start + 1, Len(ids))
<1>0. /\ pc[c] = "idle" /\ pc' = [pc EXCEPT ![c] = "fetch"]
      /\ todo' = [todo EXCEPT ![c] = w]
      /\ UNCHANGED <<tables, txVars, arg, got, out>>
    BY DEF ListIndex
<1>1. ids \in Seq(Msgs) /\ n \in Nat /\ Len(ids) \in Nat
    BY StoreAssumption DEF Inv, Types, TypeOK
<1> HIDE DEF ids
<1>2. start \in Nat /\ start <= Len(ids)
    BY <1>1
<1> HIDE DEF start
<1>3. /\ w \in Seq(Msgs)
      /\ \A i \in 1..Len(w) : \E j \in 1..Len(ids) : w[i] = ids[j]
    BY <1>1, <1>2
<1> HIDE DEF w
<1>4. \A i \in 1..Len(w) : w[i] \in MESSAGES
    BY <1>3 DEF Inv, Matches, ids
<1>5. Types'
    BY <1>0, <1>3 DEF Inv, Types, TypeOK, tables, txVars
<1>6. Matches(MESSAGES, BOARD_INDEX)'
    BY <1>0 DEF Inv, Matches, tables
<1>7. /\ pc'[c] = "fetch" /\ todo'[c] = w /\ writer' # c
      /\ \A d \in Clients \ {c} : pc'[d] = pc[d] /\ todo'[d] = todo[d]
    BY <1>0, NotWriter DEF Inv, Types, TypeOK, txVars
<1>8. ASSUME NEW d \in Clients
      PROVE  ClientInv(d)'
  <2>1. CASE d = c
      BY <1>0, <1>4, <1>7, <2>1 DEF ClientInv, tables
  <2>2. CASE d # c
      BY <1>0, <1>7, <2>2, Bystander DEF Inv, tables, txVars
  <2> QED
      BY <2>1, <2>2
<1> QED
    BY <1>5, <1>6, <1>8 DEF Inv

\* One message is fetched.
LEMMA ListFetchInv ==
  ASSUME Inv, NEW c \in Clients, ListFetch(c)
  PROVE  Inv' /\ got'[c] = Append(got[c], Head(todo[c])) /\ todo'[c] = Tail(todo[c])
<1>0. /\ pc[c] = "fetch" /\ todo[c] # <<>>
      /\ UNCHANGED <<tables, txVars, pc, arg, out>>
      /\ todo[c] \in Seq(Msgs) /\ got[c] \in Seq(Msgs)
      /\ \A i \in 1..Len(todo[c]) : todo[c][i] \in MESSAGES
    BY DEF ListFetch, Inv, Types, TypeOK, ClientInv
<1>1. /\ Head(todo[c]) \in Msgs /\ Tail(todo[c]) \in Seq(Msgs)
      /\ Append(got[c], Head(todo[c])) \in Seq(Msgs)
      /\ \A i \in 1..Len(Tail(todo[c])) : Tail(todo[c])[i] \in MESSAGES
      /\ Head(todo[c]) \in MESSAGES
    BY <1>0, MoveHead
<1>2. /\ got' = [got EXCEPT ![c] = Append(got[c], Head(todo[c]))]
      /\ todo' = [todo EXCEPT ![c] = Tail(todo[c])]
    BY <1>1 DEF ListFetch
<1>3. Types'
    BY <1>0, <1>1, <1>2 DEF Inv, Types, TypeOK, tables, txVars
<1>4. Matches(MESSAGES, BOARD_INDEX)'
    BY <1>0 DEF Inv, Matches, tables
<1>5. /\ got'[c] = Append(got[c], Head(todo[c])) /\ todo'[c] = Tail(todo[c])
      /\ \A d \in Clients \ {c} : got'[d] = got[d] /\ todo'[d] = todo[d]
    BY <1>2 DEF Inv, Types, TypeOK
<1>6. ASSUME NEW d \in Clients
      PROVE  ClientInv(d)'
  <2>1. CASE d = c
    <3>1. writer # c
        BY <1>0, NotWriter
    <3> QED
        BY <1>0, <1>1, <1>5, <2>1, <3>1 DEF ClientInv, tables, txVars
  <2>2. CASE d # c
      BY <1>0, <1>5, <2>2, Bystander DEF Inv, tables, txVars
  <2> QED
      BY <2>1, <2>2
<1> QED
    BY <1>3, <1>4, <1>5, <1>6 DEF Inv

\* The transaction is dropped and everybody who was not its writer goes on.
LEMMA FailInv ==
  ASSUME Inv, NEW c \in Clients, Fail(c)
  PROVE  Inv'
<1>0. Answer(c, [NoResult EXCEPT !.op = "error"]) /\ UNCHANGED tables
    BY DEF Fail
<1>1. CASE writer # c
    BY <1>0, <1>1, ReadInv DEF Fail, tables, txVars
<1>2. CASE writer = c
  <2>0. DropTx
      BY <1>2 DEF Fail
  <2>1. writer' = None /\ txMessages' \subseteq Msgs /\ txIndex' \in [Slugs -> Seq(Msgs)]
      BY <2>0 DEF DropTx
  <2>2. Types'
      BY <1>0, <2>1, AnswerEffect DEF Inv, Types, TypeOK, tables
  <2>3. Matches(MESSAGES, BOARD_INDEX)'
      BY <1>0 DEF Inv, Matches, tables
  <2>4. ASSUME NEW d \in Clients
        PROVE  ClientInv(d)'
    <3>0. writer' # d
        BY <2>1, StoreAssumption
    <3>1. CASE d = c
        BY <1>0, <3>0, <3>1, AnswerEffect, Resting
    <3>2. CASE d # c
      <4>1. pc[d] # "commit"
          BY <1>2, <3>2 DEF Inv, ClientInv, Staged
      <4>2. pc'[d] = pc[d] /\ arg'[d] = arg[d] /\ todo'[d] = todo[d] /\ got'[d] = got[d]
          BY <1>0, <3>2, AnswerEffect
      <4> QED
          BY <1>0, <3>0, <4>1, <4>2 DEF Inv, ClientInv, tables
    <3> QED
        BY <3>1, <3>2
  <2> QED
      BY <2>2, <2>3, <2>4 DEF Inv
<1> QED
    BY <1>1, <1>2

\* After a restart nobody is in a call and the tables are as committed.
LEMMA CrashInv ==
  ASSUME Inv, Crash
  PROVE  Inv'
<1>1. writer' = None /\ txMessages' \subseteq Msgs /\ txIndex' \in [Slugs -> Seq(Msgs)]
    BY DEF Crash, DropTx
<1>2. Types'
    BY <1>1 DEF Inv, Types, TypeOK, Crash, tables
<1>3. Matches(MESSAGES, BOARD_INDEX)'
    BY DEF Inv, Matches, Crash, tables
<1>4. ASSUME NEW d \in Clients
      PROVE  ClientInv(d)'
  <2>1. writer' # d
      BY <1>1, StoreAssumption
  <2> QED
      BY <2>1, Resting DEF Crash
<1> QED
    BY <1>2, <1>3, <1>4 DEF Inv

\* Boards and personas have tables of their own.
LEMMA OtherTablesInv ==
  ASSUME Inv, BOARDS' \in [Slugs -> Vals \cup {None}],
         AGENT_PERSONAS' \in [Handles -> Vals \cup {None}],
         UNCHANGED <<MESSAGES, BOARD_INDEX, txVars, pc, arg, todo, got, out>>
  PROVE  Inv'
<1>1. Types'
    BY DEF Inv, Types, TypeOK, txVars
<1>2. Matches(MESSAGES, BOARD_INDEX)'
    BY DEF Inv, Matches
<1>3. ASSUME NEW d \in Clients
      PROVE  ClientInv(d)'
    BY Bystander DEF Inv, txVars
<1> QED
    BY <1>1, <1>2, <1>3 DEF Inv

\* Every step keeps the invariant.
LEMMA InvStep == Inv /\ [Next]_vars => Inv'
<1> SUFFICES ASSUME Inv, [Next]_vars PROVE Inv'
    OBVIOUS
<1>1. ASSUME NEW c \in Clients, NEW m \in Msgs, GetMessage(c, m)
      PROVE  Inv'
    BY <1>1, ReadInv, NotWriter DEF GetMessage
<1>2. ASSUME NEW c \in Clients, MessageCount(c)
      PROVE  Inv'
    BY <1>2, ReadInv, NotWriter DEF MessageCount
<1>3. ASSUME NEW c \in Clients, ListReturn(c)
      PROVE  Inv'
    BY <1>3, ReadInv, NotWriter DEF ListReturn
<1>4. ASSUME NEW s \in Slugs, NEW v \in Vals, PutBoard(s, v)
      PROVE  Inv'
  <2>1. BOARDS' \in [Slugs -> Vals \cup {None}] /\ AGENT_PERSONAS' \in [Handles -> Vals \cup {None}]
      BY <1>4 DEF PutBoard, Inv, Types, TypeOK
  <2> QED
      BY <1>4, <2>1, OtherTablesInv DEF PutBoard
<1>5. ASSUME NEW h \in Handles, NEW v \in Vals \cup {None}, SetPersona(h, v)
      PROVE  Inv'
  <2>1. BOARDS' \in [Slugs -> Vals \cup {None}] /\ AGENT_PERSONAS' \in [Handles -> Vals \cup {None}]
      BY <1>5 DEF SetPersona, Inv, Types, TypeOK
  <2> QED
      BY <1>5, <2>1, OtherTablesInv DEF SetPersona
<1>6. CASE UNCHANGED vars
  <2>1. BOARDS' \in [Slugs -> Vals \cup {None}] /\ AGENT_PERSONAS' \in [Handles -> Vals \cup {None}]
      BY <1>6 DEF vars, tables, Inv, Types, TypeOK
  <2> QED
      BY <1>6, <2>1, OtherTablesInv DEF vars, tables
<1> QED
    BY <1>1, <1>2, <1>3, <1>4, <1>5, <1>6, CallPutInv, ListIndexInv, PutStageInv,
       PutCommitInv, ListFetchInv, FailInv, CrashInv
       DEF Next

----------------------------------------------------------------------------
(* Refinement *)

\* The answers as Store has them: out under the refinement mapping.
Answers == [c \in Clients |-> IF pc[c] = "fetch" THEN ListSoFar(c) ELSE out[c]]

\* A call that ends in an answer gives that answer to its client and to nobody
\* else, also when the client was in a listing.
LEMMA AnswerMaps ==
  ASSUME Inv, NEW c \in Clients, NEW r, Answer(c, r)
  PROVE  Answers' = [Answers EXCEPT ![c] = r]
<1>1. ASSUME NEW d \in Clients
      PROVE  Answers'[d] = IF d = c THEN r ELSE Answers[d]
    BY AnswerEffect DEF Answers, ListSoFar
<1>2. Answers' = [d \in Clients |-> Answers'[d]] /\ DOMAIN Answers = Clients
    BY DEF Answers
<1> QED
    BY <1>1, <1>2

\* The initial states map to initial states of Store.
LEMMA InitMaps == Init => Abstract!Init
  BY DEF Init, Abstract!Init, NoResult, Abstract!NoResult

\* A step that changes no answer and none of the mapped tables is no step of
\* Store.
LEMMA Stutters ==
  ASSUME UNCHANGED <<BOARDS, AGENT_PERSONAS, BOARD_INDEX>>, Answers' = Answers
  PROVE  UNCHANGED Abstract!vars
  BY DEF Abstract!vars, Answers

\* The two halves of put_message: a replay and a commit are Store's PutMessage.
LEMMA PutMaps ==
  ASSUME Inv, NEW c \in Clients, Answer(c, PutOk), NEW m \in Msgs,
         UNCHANGED <<BOARDS, AGENT_PERSONAS>>,
         BOARD_INDEX' = IF m \in MESSAGES THEN BOARD_INDEX ELSE With(BOARD_INDEX, m)
  PROVE  Abstract!PutMessage(c, m)
<1>1. Answers' = [Answers EXCEPT ![c] = [NoResult EXCEPT !.op = "put"]]
    BY AnswerMaps DEF PutOk
<1>2. m \in MESSAGES <=> m \in ToSet(BOARD_INDEX[BoardOf[m]])
    BY MatchesAgree DEF Inv, Types
<1> QED
    BY <1>1, <1>2 DEF Abstract!PutMessage, Answers, With, ToSet, Abstract!ToSet,
       NoResult, Abstract!NoResult

\* list_messages takes effect when it reads the index.
LEMMA ListMaps ==
  ASSUME Inv, NEW c \in Clients, NEW s \in Slugs, NEW n \in Limits, ListIndex(c, s, n)
  PROVE  Abstract!ListMessages(c, s, n)
<1> DEFINE ids == BOARD_INDEX[s]
           start == IF n < Len(ids) THEN Len(ids) - n ELSE 0
           w == SubSeq(ids, start + 1, Len(ids))
           r == [op |-> "list", msgs |-> w, n |-> 0]
<1>0. /\ pc[c] = "idle" /\ pc' = [pc EXCEPT ![c] = "fetch"]
      /\ todo' = [todo EXCEPT ![c] = w]
      /\ UNCHANGED <<tables, got, out>>
    BY DEF ListIndex
<1>1. ids \in Seq(Msgs) /\ n \in Nat /\ Len(ids) \in Nat
    BY StoreAssumption DEF Inv, Types, TypeOK
<1>2. w = Abstract!Window(ids, n) /\ w \in Seq(Msgs)
  <2>1. start + 1 = Len(ids) - (IF n < Len(ids) THEN n ELSE Len(ids)) + 1
      BY <1>1
  <2>2. start \in Nat /\ start <= Len(ids)
      BY <1>1
  <2>3. w \in Seq(Msgs)
    <3> HIDE DEF start, ids
    <3> QED
        BY <1>1, <2>2
  <2> HIDE DEF start
  <2> QED
      BY <2>1, <2>3 DEF Abstract!Window
<1> HIDE DEF w
<1>3. /\ pc'[c] = "fetch" /\ todo'[c] = w /\ got'[c] = <<>>
      /\ \A d \in Clients \ {c} : pc'[d] = pc[d] /\ todo'[d] = todo[d]
    BY <1>0 DEF Inv, Types, TypeOK, ClientInv
<1>4. got'[c] \o todo'[c] = w
    BY <1>2, <1>3, EmptySeq
<1>5. ASSUME NEW d \in Clients
      PROVE  Answers'[d] = IF d = c THEN r ELSE Answers[d]
    BY <1>0, <1>3, <1>4 DEF Answers, ListSoFar
<1>6. Answers' = [d \in Clients |-> Answers'[d]] /\ DOMAIN Answers = Clients
    BY DEF Answers
<1>7. Answers' = [Answers EXCEPT ![c] = r]
    BY <1>5, <1>6
<1> QED
    BY <1>0, <1>2, <1>7 DEF Abstract!ListMessages, Answers, tables

\* Fetching and returning what was listed changes nothing Store can see.
LEMMA FetchMaps ==
  ASSUME Inv, NEW c \in Clients, ListFetch(c)
  PROVE  UNCHANGED Abstract!vars
<1>1. /\ pc[c] = "fetch" /\ todo[c] # <<>>
      /\ todo[c] \in Seq(Msgs) /\ got[c] \in Seq(Msgs)
      /\ UNCHANGED <<tables, pc, out>>
      /\ \A d \in Clients \ {c} : got'[d] = got[d] /\ todo'[d] = todo[d]
    BY DEF ListFetch, Inv, Types, TypeOK
<1>2. got'[c] \o todo'[c] = got[c] \o todo[c]
  <2>1. got'[c] = Append(got[c], Head(todo[c])) /\ todo'[c] = Tail(todo[c])
      BY ListFetchInv
  <2>2. todo[c] \in Seq(Msgs) /\ got[c] \in Seq(Msgs) /\ todo[c] # <<>>
      BY <1>1
  <2>3. PICK s \in Seq(Msgs) : s = got[c]
      BY <2>2
  <2>4. PICK t \in Seq(Msgs) : t = todo[c]
      BY <2>2
  <2>5. t # <<>>
      BY <2>2, <2>4
  <2>6. Append(s, Head(t)) \o Tail(t) = s \o t
      BY <2>5
  <2> QED
      BY <2>1, <2>3, <2>4, <2>6, Zenon
<1>3. ASSUME NEW d \in Clients
      PROVE  got'[d] \o todo'[d] = got[d] \o todo[d]
    BY <1>1, <1>2
<1>4. Answers' = Answers
    BY <1>1, <1>3 DEF Answers, ListSoFar
<1> QED
    BY <1>1, <1>4, Stutters DEF tables

\* The answer of a listing is what it had fetched.
LEMMA ReturnMaps ==
  ASSUME Inv, NEW c \in Clients, ListReturn(c)
  PROVE  UNCHANGED Abstract!vars
<1> DEFINE r == [op |-> "list", msgs |-> got[c], n |-> 0]
<1>1. /\ pc[c] = "fetch" /\ todo[c] = <<>> /\ got[c] \in Seq(Msgs)
      /\ UNCHANGED tables /\ Answer(c, r)
    BY DEF ListReturn, Inv, Types, TypeOK
<1>2. Answers[c] = r
  <2>1. got[c] \o todo[c] = got[c]
      BY <1>1, EmptySeq
  <2> QED
      BY <1>1, <2>1 DEF Answers, ListSoFar
<1>3. Answers' = [Answers EXCEPT ![c] = r]
    BY <1>1, AnswerMaps
<1>4. Answers' = Answers
    BY <1>2, <1>3 DEF Answers
<1> QED
    BY <1>1, <1>4, Stutters DEF tables

\* Every step is a step of Store or changes nothing Store can see.
LEMMA StepMaps == Inv /\ [Next]_vars => [Abstract!Next]_(Abstract!vars)
<1> SUFFICES ASSUME Inv, [Next]_vars
             PROVE  Abstract!Next \/ UNCHANGED Abstract!vars
    OBVIOUS
<1>1. ASSUME NEW c \in Clients, NEW m \in Msgs, CallPut(c, m)
      PROVE  UNCHANGED Abstract!vars
  <2>1. ASSUME NEW d \in Clients
        PROVE  (pc'[d] = "fetch" <=> pc[d] = "fetch")
      BY <1>1 DEF CallPut, Inv, Types, TypeOK
  <2>2. Answers' = Answers
      BY <1>1, <2>1 DEF Answers, ListSoFar, CallPut
  <2> QED
      BY <1>1, <2>2, Stutters DEF CallPut, tables
<1>2. ASSUME NEW c \in Clients, NEW m \in Msgs, GetMessage(c, m)
      PROVE  Abstract!GetMessage(c, m)
  <2>1. Abstract!Stored = MESSAGES
      BY MatchesAgree DEF Inv, Types
  <2>2. Answers' = [Answers EXCEPT ![c] =
                      [op |-> "get", n |-> 0, msgs |-> IF m \in MESSAGES THEN <<m>> ELSE <<>>]]
      BY <1>2, AnswerMaps DEF GetMessage
  <2> QED
      BY <1>2, <2>1, <2>2 DEF Abstract!GetMessage, Answers, GetMessage, tables
<1>3. ASSUME NEW c \in Clients, MessageCount(c)
      PROVE  Abstract!MessageCount(c)
  <2>1. Abstract!Stored = MESSAGES
      BY MatchesAgree DEF Inv, Types
  <2>2. Answers' = [Answers EXCEPT ![c] =
                      [op |-> "count", n |-> Cardinality(MESSAGES), msgs |-> <<>>]]
      BY <1>3, AnswerMaps DEF MessageCount
  <2>3. UNCHANGED <<BOARDS, AGENT_PERSONAS, BOARD_INDEX>>
      BY <1>3 DEF MessageCount, tables
  <2>4. Abstract!Cardinality(MESSAGES) = Cardinality(MESSAGES)
      BY DEF Abstract!Cardinality, Cardinality
  <2> QED
      BY <2>1, <2>2, <2>3, <2>4 DEF Abstract!MessageCount, Answers
<1>4. ASSUME NEW c \in Clients, PutStage(c)
      PROVE  UNCHANGED Abstract!vars \/ \E m \in Msgs : Abstract!PutMessage(c, m)
  <2>1. UNCHANGED tables /\ pc[c] = "put"
      BY <1>4 DEF PutStage
  <2>0. arg[c] \in Msgs
      BY <2>1 DEF Inv, ClientInv
  <2>2. CASE arg[c] \in MESSAGES /\ Answer(c, PutOk)
    <3>1. PICK m \in Msgs : arg[c] = m
        BY <2>0
    <3>2. Abstract!PutMessage(c, m)
        BY <2>1, <2>2, <3>1, PutMaps DEF tables
    <3> QED
        BY <3>2
  <2>3. CASE pc' = [pc EXCEPT ![c] = "commit"] /\ UNCHANGED <<arg, todo, got, out>>
    <3>1. ASSUME NEW d \in Clients
          PROVE  (pc'[d] = "fetch" <=> pc[d] = "fetch")
        BY <2>1, <2>3 DEF Inv, Types, TypeOK
    <3>2. Answers' = Answers
        BY <2>3, <3>1 DEF Answers, ListSoFar
    <3> QED
        BY <2>1, <3>2, Stutters DEF tables
  <2> QED
      BY <1>4, <2>2, <2>3 DEF PutStage
<1>5. ASSUME NEW c \in Clients, PutCommit(c)
      PROVE  \E m \in Msgs : Abstract!PutMessage(c, m)
  <2>1. /\ Staged(c) /\ Answer(c, PutOk) /\ BOARD_INDEX' = txIndex
        /\ UNCHANGED <<BOARDS, AGENT_PERSONAS>>
      BY <1>5 DEF PutCommit, Inv, ClientInv
  <2>2. arg[c] \in Msgs /\ arg[c] \notin MESSAGES /\ BOARD_INDEX' = With(BOARD_INDEX, arg[c])
      BY <2>1 DEF Staged
  <2>3. PICK m \in Msgs : arg[c] = m
      BY <2>2
  <2>4. Abstract!PutMessage(c, m)
      BY <2>1, <2>2, <2>3, PutMaps
  <2> QED
      BY <2>4
<1>6. ASSUME NEW c \in Clients, Fail(c)
      PROVE  Abstract!StorageError(c)
  <2>1. Answers' = [Answers EXCEPT ![c] = [NoResult EXCEPT !.op = "error"]]
      BY <1>6, AnswerMaps DEF Fail
  <2> QED
      BY <1>6, <2>1 DEF Abstract!StorageError, Answers, Fail, tables, NoResult,
         Abstract!NoResult
<1>7. ASSUME NEW s \in Slugs, NEW v \in Vals, PutBoard(s, v)
      PROVE  Abstract!PutBoard(s, v)
  <2>1. Answers' = Answers
      BY <1>7 DEF PutBoard, Answers, ListSoFar
  <2> QED
      BY <1>7, <2>1 DEF Abstract!PutBoard, Answers, PutBoard
<1>8. ASSUME NEW h \in Handles, NEW v \in Vals \cup {None}, SetPersona(h, v)
      PROVE  Abstract!SetPersona(h, v)
  <2>1. Answers' = Answers
      BY <1>8 DEF SetPersona, Answers, ListSoFar
  <2> QED
      BY <1>8, <2>1 DEF Abstract!SetPersona, Answers, SetPersona
<1>9. ASSUME Crash
      PROVE  Abstract!Restart
  <2>1. Answers' = [c \in Clients |-> NoResult]
      BY <1>9 DEF Crash, Answers
  <2> QED
      BY <1>9, <2>1 DEF Abstract!Restart, Answers, Crash, tables, NoResult,
         Abstract!NoResult
<1>10. CASE UNCHANGED vars
  <2>1. Answers' = Answers
      BY <1>10 DEF vars, Answers, ListSoFar
  <2> QED
      BY <1>10, <2>1, Stutters DEF vars, tables
<1> QED
    BY <1>1, <1>2, <1>3, <1>4, <1>5, <1>6, <1>7, <1>8, <1>9, <1>10,
       ListMaps, FetchMaps, ReturnMaps
       DEF Next, Abstract!Next

----------------------------------------------------------------------------
(* Theorems *)

\* The invariant holds in every reachable state.
THEOREM StoreInOrder == Spec => []Inv
<1> QED
    BY InvInit, InvStep, PTL DEF Spec

\* The message table and the board index never disagree, whichever call fails
\* and whenever the process dies: a message is in both or in neither, once, and
\* on its own board (RedbStore::put_message).
THEOREM TablesInOrder == Spec => []TablesAgree
<1>1. Inv => TablesAgree
    BY MatchesAgree DEF Inv, Types
<1> QED
    BY <1>1, StoreInOrder, PTL

\* RedbStore implements Store: put, get, list and count behave as single steps
\* on an append-only log, although a put is a transaction of several steps, a
\* listing is many transactions, calls fail and the process restarts.
THEOREM Refinement == Spec => ImplementsStore
<1> QED
    BY InitMaps, StepMaps, StoreInOrder, PTL DEF Spec, ImplementsStore, Abstract!Spec
----------------------------------------------------------------------------
(* What failures and crashes leave, and what a call may wait for *)

\* A list that has only been appended to.
Grows(old, new) == Len(old) <= Len(new) /\ \A i \in 1..Len(old) : new[i] = old[i]

\* What is stored stays stored, in its place, whatever fails or crashes
\* afterwards; and a put that is answered with success has stored its message.
NothingLost ==
  [][/\ MESSAGES \subseteq MESSAGES'
     /\ \A s \in Slugs : Grows(BOARD_INDEX[s], BOARD_INDEX'[s])
     /\ \A c \in Clients :
          (pc[c] \in {"put", "commit"} /\ pc'[c] = "idle" /\ out'[c] = PutOk)
             => arg[c] \in MESSAGES']_vars

\* A list grows when it is left alone, and when an id is pushed.
LEMMA IndexGrows ==
  ASSUME NEW idx \in [Slugs -> Seq(Msgs)], NEW new,
         new = idx \/ \E m \in Msgs : new = With(idx, m)
  PROVE  \A s \in Slugs : Grows(idx[s], new[s])
<1> SUFFICES ASSUME NEW s \in Slugs PROVE Grows(idx[s], new[s])
    OBVIOUS
<1>0. idx[s] \in Seq(Msgs)
    OBVIOUS
<1>1. CASE new[s] = idx[s]
    BY <1>0, <1>1 DEF Grows
<1>2. CASE \E m \in Msgs : new[s] = Append(idx[s], m)
    BY <1>0, <1>2 DEF Grows
<1>3. ASSUME NEW m \in Msgs, new = With(idx, m)
      PROVE  Grows(idx[s], new[s])
  <2>1. CASE s = BoardOf[m]
      BY <1>2, <1>3, <2>1, WithType
  <2>2. CASE s # BoardOf[m]
      BY <1>1, <1>3, <2>2, WithType
  <2> QED
      BY <2>1, <2>2
<1> QED
    BY <1>1, <1>3

\* A commit is the only step that changes what is stored.
LEMMA CommitAdds ==
  ASSUME Inv, NEW c \in Clients, PutCommit(c)
  PROVE  /\ MESSAGES' = MESSAGES \cup {arg[c]} /\ arg[c] \in Msgs
         /\ BOARD_INDEX' = With(BOARD_INDEX, arg[c])
  BY DEF Inv, ClientInv, Staged, PutCommit

\* An answered put has stored its message or found it stored.
LEMMA AckedPut ==
  ASSUME Inv, Next, NEW c \in Clients, pc[c] \in {"put", "commit"},
         pc'[c] = "idle", out'[c] = PutOk
  PROVE  arg[c] \in MESSAGES'
<1>1. ASSUME NEW d \in Clients, PutStage(d) PROVE arg[c] \in MESSAGES'
  <2>1. CASE arg[d] \in MESSAGES
    <3>1. d = c
        BY <1>1, <2>1, AnswerEffect DEF PutStage
    <3> QED
        BY <1>1, <2>1, <3>1 DEF PutStage, tables
  <2>2. CASE arg[d] \notin MESSAGES
      BY <1>1, <2>2 DEF PutStage, Inv, Types, TypeOK
  <2> QED
      BY <2>1, <2>2
<1>2. ASSUME NEW d \in Clients, PutCommit(d) PROVE arg[c] \in MESSAGES'
  <2>1. d = c
      BY <1>2, AnswerEffect DEF PutCommit
  <2> QED
      BY <1>2, <2>1, CommitAdds
<1>3. ASSUME NEW d \in Clients, Fail(d) PROVE FALSE
  <2>1. d = c
      BY <1>3, AnswerEffect DEF Fail
  <2>2. out'[c] = [NoResult EXCEPT !.op = "error"]
      BY <1>3, <2>1, AnswerEffect DEF Fail
  <2> QED
      BY <2>2 DEF NoResult, PutOk
<1>4. ASSUME Crash PROVE FALSE
    BY <1>4 DEF Crash, NoResult, PutOk
<1>5. ASSUME NEW d \in Clients, NEW r, Answer(d, r), pc[d] \notin {"put", "commit"}
      PROVE  FALSE
    BY <1>5, AnswerEffect
<1>6. ASSUME NEW d \in Clients, NEW m \in Msgs, CallPut(d, m) PROVE FALSE
    BY <1>6 DEF CallPut, Inv, Types, TypeOK
<1>7. ASSUME NEW d \in Clients, NEW s \in Slugs, NEW n \in Limits, ListIndex(d, s, n)
      PROVE  FALSE
    BY <1>7 DEF ListIndex, Inv, Types, TypeOK
<1>8. ~(\E d \in Clients : ListFetch(d))
    BY DEF ListFetch
<1>9. ~(\E s \in Slugs, v \in Vals : PutBoard(s, v))
    BY DEF PutBoard
<1>10. ~(\E h \in Handles, v \in Vals \cup {None} : SetPersona(h, v))
    BY DEF SetPersona
<1>11. ~(\E d \in Clients : MessageCount(d) \/ ListReturn(d))
    BY <1>5 DEF MessageCount, ListReturn
<1>12. ~(\E d \in Clients, m \in Msgs : GetMessage(d, m))
    BY <1>5 DEF GetMessage
<1> QED
    BY <1>1, <1>2, <1>3, <1>4, <1>6, <1>7, <1>8, <1>9, <1>10, <1>11, <1>12 DEF Next

\* The log of a board only ever grows at its end, and success means stored: a
\* storage error or a crash, at any step of any call, takes nothing back.
THEOREM Durable == Spec => NothingLost
<1>1. Inv /\ [Next]_vars =>
        [/\ MESSAGES \subseteq MESSAGES'
         /\ \A s \in Slugs : Grows(BOARD_INDEX[s], BOARD_INDEX'[s])
         /\ \A c \in Clients :
              (pc[c] \in {"put", "commit"} /\ pc'[c] = "idle" /\ out'[c] = PutOk)
                 => arg[c] \in MESSAGES']_vars
  <2> SUFFICES ASSUME Inv, Next
               PROVE  /\ MESSAGES \subseteq MESSAGES'
                      /\ \A s \in Slugs : Grows(BOARD_INDEX[s], BOARD_INDEX'[s])
                      /\ \A c \in Clients :
                           (pc[c] \in {"put", "commit"} /\ pc'[c] = "idle" /\ out'[c] = PutOk)
                              => arg[c] \in MESSAGES'
      OBVIOUS
  <2>0. BOARD_INDEX \in [Slugs -> Seq(Msgs)]
      BY DEF Inv, Types, TypeOK
  <2>1. \/ UNCHANGED <<MESSAGES, BOARD_INDEX>>
        \/ \E c \in Clients : PutCommit(c)
      BY DEF Next, CallPut, GetMessage, ListIndex, MessageCount, PutStage, ListFetch,
         ListReturn, Fail, PutBoard, SetPersona, Crash, tables
  <2>2. /\ MESSAGES \subseteq MESSAGES'
        /\ BOARD_INDEX' = BOARD_INDEX \/ \E m \in Msgs : BOARD_INDEX' = With(BOARD_INDEX, m)
      BY <2>1, CommitAdds
  <2> QED
      BY <2>0, <2>2, IndexGrows, AckedPut
<1> QED
    BY <1>1, StoreInOrder, PTL DEF Spec, NothingLost

\* Steps a call still has to take: a listing fetches one id at a time.
StepsLeft(c) ==
  IF pc[c] = "idle" THEN 0
  ELSE IF pc[c] = "put" THEN 2
  ELSE IF pc[c] = "commit" THEN 1
  ELSE 1 + Len(todo[c])

\* A put waits only for a call whose one remaining step is its commit, which
\* waits for nobody; and every step of a call, a failure or a crash included,
\* brings it nearer to its answer.
WaitsAreShort ==
  /\ [](writer # None => writer \in Clients /\ pc[writer] = "commit")
  /\ [][\A c \in Clients : pc[c] # "idle" =>
          \/ pc'[c] = pc[c] /\ todo'[c] = todo[c]
          \/ StepsLeft(c)' < StepsLeft(c)]_vars

\* An answer is the end of a call.
LEMMA AnsweredIsDone ==
  ASSUME Inv, NEW c \in Clients, pc[c] # "idle", pc'[c] = "idle"
  PROVE  StepsLeft(c)' < StepsLeft(c)
<1>1. StepsLeft(c)' = 0
    BY DEF StepsLeft
<1>2. Len(todo[c]) \in Nat
    BY DEF Inv, Types, TypeOK
<1> QED
    BY <1>1, <1>2 DEF StepsLeft

\* Dropping the head of a list makes it shorter.
LEMMA TailLen ==
  ASSUME NEW S, NEW t \in Seq(S), t # <<>>
  PROVE  Len(Tail(t)) = Len(t) - 1 /\ Len(t) \in Nat
  OBVIOUS

\* Every step of a call brings it nearer to its answer.
LEMMA CallShrinks ==
  ASSUME Inv, Next, NEW c \in Clients, pc[c] # "idle"
  PROVE  \/ pc'[c] = pc[c] /\ todo'[c] = todo[c]
         \/ StepsLeft(c)' < StepsLeft(c)
<1> DEFINE Goal == \/ pc'[c] = pc[c] /\ todo'[c] = todo[c]
                   \/ StepsLeft(c)' < StepsLeft(c)
<1>1. ASSUME NEW d \in Clients, NEW r, Answer(d, r) PROVE Goal
  <2>1. CASE d = c
      BY <1>1, <2>1, AnswerEffect, AnsweredIsDone
  <2>2. CASE d # c
      BY <1>1, <2>2, AnswerEffect
  <2> QED
      BY <2>1, <2>2
<1>2. ASSUME NEW d \in Clients, PutStage(d) PROVE Goal
  <2>1. CASE arg[d] \in MESSAGES
      BY <1>1, <1>2, <2>1 DEF PutStage
  <2>2. CASE arg[d] \notin MESSAGES
    <3>1. pc[d] = "put" /\ pc' = [pc EXCEPT ![d] = "commit"] /\ todo' = todo
        BY <1>2, <2>2 DEF PutStage
    <3>2. CASE d = c
        BY <3>1, <3>2 DEF StepsLeft, Inv, Types, TypeOK
    <3>3. CASE d # c
        BY <3>1, <3>3 DEF Inv, Types, TypeOK
    <3> QED
        BY <3>2, <3>3
  <2> QED
      BY <2>1, <2>2
<1>3. ASSUME NEW d \in Clients, ListFetch(d) PROVE Goal
  <2>1. /\ pc[d] = "fetch" /\ pc' = pc /\ todo[d] # <<>>
        /\ todo' = [todo EXCEPT ![d] = Tail(@)] /\ todo[d] \in Seq(Msgs)
      BY <1>3 DEF ListFetch, Inv, Types, TypeOK
  <2>2. CASE d = c
    <3>1. todo'[c] = Tail(todo[c])
        BY <2>1, <2>2 DEF Inv, Types, TypeOK
    <3>2. Len(todo'[c]) = Len(todo[c]) - 1 /\ Len(todo[c]) \in Nat
        BY <2>1, <2>2, <3>1, TailLen
    <3> QED
        BY <2>1, <2>2, <3>2 DEF StepsLeft
  <2>3. CASE d # c
      BY <2>1, <2>3 DEF Inv, Types, TypeOK
  <2> QED
      BY <2>2, <2>3
<1>4. ASSUME NEW d \in Clients, NEW m \in Msgs, CallPut(d, m) PROVE Goal
    BY <1>4 DEF CallPut, Inv, Types, TypeOK
<1>5. ASSUME NEW d \in Clients, NEW s \in Slugs, NEW n \in Limits, ListIndex(d, s, n)
      PROVE  Goal
    BY <1>5 DEF ListIndex, Inv, Types, TypeOK
<1>6. ASSUME Crash PROVE Goal
  <2>1. pc'[c] = "idle"
      BY <1>6 DEF Crash
  <2> QED
      BY <2>1, AnsweredIsDone
<1>7. ASSUME \/ \E s \in Slugs, v \in Vals : PutBoard(s, v)
             \/ \E h \in Handles, v \in Vals \cup {None} : SetPersona(h, v)
      PROVE  Goal
    BY <1>7 DEF PutBoard, SetPersona
<1>8. ASSUME NEW d \in Clients,
             \/ MessageCount(d) \/ PutCommit(d) \/ ListReturn(d) \/ Fail(d)
             \/ \E m \in Msgs : GetMessage(d, m)
      PROVE  Goal
  <2>1. \E r : Answer(d, r)
      BY <1>8 DEF MessageCount, PutCommit, ListReturn, Fail, GetMessage
  <2> QED
      BY <1>1, <2>1
<1> HIDE DEF Goal
<1>9. ASSUME NEW d \in Clients,
             \/ \E m \in Msgs : CallPut(d, m) \/ GetMessage(d, m)
             \/ \E s \in Slugs, n \in Limits : ListIndex(d, s, n)
             \/ MessageCount(d)
             \/ PutStage(d) \/ PutCommit(d) \/ ListFetch(d) \/ ListReturn(d)
             \/ Fail(d)
      PROVE  Goal
    BY <1>2, <1>3, <1>4, <1>5, <1>8, <1>9
<1>10. Goal
    BY <1>6, <1>7, <1>9 DEF Next
<1> QED
    BY <1>10 DEF Goal

\* The write transaction cannot deadlock: the safety half of EveryCallReturns
\* for RedbStore.
THEOREM WritersFinish == Spec => WaitsAreShort
<1>1. Inv => (writer # None => writer \in Clients /\ pc[writer] = "commit")
    BY DEF Inv, Types, TypeOK, ClientInv
<1>2. Inv /\ [Next]_vars =>
        [\A c \in Clients : pc[c] # "idle" =>
           \/ pc'[c] = pc[c] /\ todo'[c] = todo[c]
           \/ StepsLeft(c)' < StepsLeft(c)]_vars
    BY CallShrinks
<1> QED
    BY <1>1, <1>2, StoreInOrder, PTL DEF Spec, WaitsAreShort
----------------------------------------------------------------------------
(* The store in memory *)

\* A non-empty set of naturals has a least element.
LEMMA LeastNat ==
  ASSUME NEW T \in SUBSET Nat, T # {}
  PROVE  \E x \in T : \A y \in T : x <= y
<1> DEFINE R == {p \in Nat \X Nat : p[1] < p[2]}
<1>1. IsWellFoundedOn(R, Nat)
    BY NatLessThanWellFounded, Zenon DEF OpToRel
<1>2. ASSUME NEW x \in Nat, NEW y \in Nat, x < y
      PROVE  <<x, y>> \in R
    BY <1>2
<1> HIDE DEF R
<1>3. PICK x \in T : \A y \in T : ~ (<<y, x>> \in R)
    BY <1>1, WFMin
<1>4. ASSUME NEW y \in T
      PROVE  x <= y
  <2>1. x \in Nat /\ y \in Nat /\ ~(y < x)
      BY <1>2, <1>3
  <2> QED
      BY <2>1
<1> QED
    BY <1>4

\* A loop over all positions from a + 1 to b meets them one after the other.
LEMMA IntervalInOrder ==
  ASSUME NEW a \in Nat, NEW b \in Nat, a <= b, NEW q \in InOrder((a + 1) .. b)
  PROVE  /\ DOMAIN q = 1 .. (b - a)
         /\ \A k \in 1 .. (b - a) : q[k] = a + k
<1> DEFINE n == b - a
<1>1. n \in Nat /\ Cardinality((a + 1) .. b) = n
  <2>1. Cardinality((a + 1) .. b) = IF a + 1 > b THEN 0 ELSE b - (a + 1) + 1
      BY FS_Interval
  <2> QED
      BY <2>1
<1>2. q \in [1 .. n -> (a + 1) .. b] /\ \A i, j \in 1 .. n : i < j => q[i] < q[j]
    BY <1>1 DEF InOrder
<1>3. b = a + n /\ \A k \in 1 .. n : q[k] \in Int /\ a + 1 <= q[k] /\ q[k] <= b
    BY <1>2
<1> HIDE DEF n
<1>4. ASSUME NEW k \in 1 .. n
      PROVE  q[k] >= a + k
  <2> DEFINE Low == {i \in 1 .. n : q[i] < a + i}
  <2> SUFFICES ASSUME Low # {} PROVE FALSE
      BY <1>1, <1>3 DEF Low
  <2>1. PICK x \in Low : \A y \in Low : x <= y
    <3>1. Low \in SUBSET Nat
        BY <1>1
    <3> QED
        BY <3>1, LeastNat
  <2>2. x \in 1 .. n /\ q[x] < a + x
      OBVIOUS
  <2>3. x # 1
      BY <1>3, <2>2
  <2>4. x - 1 \in 1 .. n /\ ~(x <= x - 1) /\ x - 1 < x
      BY <1>1, <2>2, <2>3
  <2>5. q[x - 1] >= a + (x - 1)
      BY <1>3, <2>1, <2>4
  <2>6. q[x - 1] < q[x]
      BY <1>2, <2>2, <2>4
  <2> QED
      BY <1>3, <2>2, <2>4, <2>5, <2>6
<1>5. ASSUME NEW k \in 1 .. n
      PROVE  q[k] <= a + k
  <2> DEFINE High == {i \in 0 .. n : i < n /\ q[n - i] > b - i}
  <2> SUFFICES ASSUME High # {} PROVE FALSE
    <3>1. n - k \in 0 .. n /\ n - k < n /\ n - (n - k) = k /\ b - (n - k) = a + k
        BY <1>1, <1>3
    <3> QED
        BY <1>3, <3>1 DEF High
  <2>1. PICK x \in High : \A y \in High : x <= y
    <3>1. High \in SUBSET Nat
        BY <1>1
    <3> QED
        BY <3>1, LeastNat
  <2>2. x \in 0 .. n /\ x < n /\ n - x \in 1 .. n /\ q[n - x] > b - x
      BY <1>1
  <2>3. x # 0
      BY <1>1, <1>3, <2>2
  <2>4. x - 1 \in 0 .. n /\ x - 1 < n /\ ~(x <= x - 1) /\ n - (x - 1) \in 1 .. n
      BY <1>1, <2>2, <2>3
  <2>5. q[n - (x - 1)] <= b - (x - 1)
      BY <1>3, <2>1, <2>4
  <2>6. q[n - x] < q[n - (x - 1)]
    <3>1. n - x < n - (x - 1)
        BY <1>1, <2>2
    <3> QED
        BY <1>2, <2>2, <2>4, <3>1
  <2>7. q[n - x] \in Int /\ q[n - (x - 1)] \in Int
      BY <1>3, <2>2, <2>4
  <2>8. ASSUME NEW u \in Int, NEW v \in Int, v <= b - (x - 1), u < v
        PROVE  ~(u > b - x)
      BY <2>2, <2>8
  <2> QED
      BY <2>2, <2>5, <2>6, <2>7, <2>8
<1>6. \A k \in 1 .. n : q[k] = a + k
    BY <1>1, <1>3, <1>4, <1>5
<1> QED
    BY <1>2, <1>6 DEF n

\* What a client's program counter says of the rest of its state.  Only the
\* writer of `messages` is between the insert and the push, and its message is
\* the one the index lacks.
CallInv(c) ==
  /\ pc[c] \in {"put", "push"} => arg[c] \in Msgs
  /\ pc[c] \in {"list", "read"} => query[c] \in Slugs \X Limits
  /\ pc[c] = "push" <=> msgWriter = c
  /\ pc[c] = "push" => arg[c] \in messages /\ Matches(messages \ {arg[c]}, by_board)

MemInv ==
  /\ MemTypeOK
  /\ out = [c \in Clients |-> out[c]]
  /\ msgWriter = None => Matches(messages, by_board)
  /\ \A c \in Clients : CallInv(c)

\* What an answer does to the program counters and arguments.
LEMMA MemAnswerInv ==
  ASSUME MemInv, NEW c \in Clients, NEW r, MemAnswer(c, r)
  PROVE  /\ pc' \in [Clients -> {"idle", "put", "push", "list", "read"}]
         /\ arg' \in [Clients -> Msgs \cup {None}]
         /\ query' \in [Clients -> (Slugs \X Limits) \cup {None}]
         /\ out' = [d \in Clients |-> out'[d]]
         /\ pc'[c] = "idle"
         /\ \A d \in Clients \ {c} : pc'[d] = pc[d] /\ arg'[d] = arg[d] /\ query'[d] = query[d]
  BY DEF MemInv, MemTypeOK, MemAnswer

\* Initially everything is empty and idle.
LEMMA MemInitInv == MemInit => MemInv
<1> SUFFICES ASSUME MemInit PROVE MemInv
    OBVIOUS
<1>1. MemTypeOK
    BY DEF MemInit, MemTypeOK
<1>2. out = [c \in Clients |-> out[c]]
    BY DEF MemInit
<1>3. Matches(messages, by_board)
    BY DEF MemInit, Matches
<1>4. \A c \in Clients : CallInv(c)
    BY StoreAssumption DEF MemInit, CallInv
<1> QED
    BY <1>1, <1>2, <1>3, <1>4 DEF MemInv

\* Calls that answer at once from an unlocked map, and the end of a listing.
LEMMA MemRead ==
  ASSUME MemInv, NEW c \in Clients, NEW r, MemAnswer(c, r), pc[c] # "push",
         UNCHANGED <<by_board, messages, msgWriter>>,
         idxReaders' \subseteq idxReaders, UNCHANGED maps
  PROVE  MemInv'
<1>1. MemTypeOK'
    BY MemAnswerInv DEF MemInv, MemTypeOK, maps
<1>2. ASSUME NEW d \in Clients PROVE CallInv(d)'
    BY MemAnswerInv DEF MemInv, CallInv, Matches
<1> QED
    BY <1>1, <1>2, MemAnswerInv DEF MemInv, Matches

\* A call that begins, or takes the index's lock.
LEMMA MemBegin ==
  ASSUME MemInv, NEW c \in Clients, pc[c] # "push",
         NEW l \in {"put", "list", "read"}, pc' = [pc EXCEPT ![c] = l],
         arg' \in [Clients -> Msgs \cup {None}],
         query' \in [Clients -> (Slugs \X Limits) \cup {None}],
         \A d \in Clients \ {c} : arg'[d] = arg[d] /\ query'[d] = query[d],
         l = "put" => arg'[c] \in Msgs,
         l # "put" => query'[c] \in Slugs \X Limits,
         idxReaders' \subseteq idxReaders \cup {c},
         UNCHANGED <<maps, by_board, messages, msgWriter, out>>
  PROVE  MemInv'
<1>1. /\ pc' \in [Clients -> {"idle", "put", "push", "list", "read"}]
      /\ pc'[c] = l /\ \A d \in Clients \ {c} : pc'[d] = pc[d]
    BY DEF MemInv, MemTypeOK
<1>2. MemTypeOK'
    BY <1>1 DEF MemInv, MemTypeOK, maps
<1>3. ASSUME NEW d \in Clients PROVE CallInv(d)'
    BY <1>1 DEF MemInv, CallInv, Matches
<1> QED
    BY <1>2, <1>3 DEF MemInv, Matches

\* The insert: the writer keeps `messages` until the index has the id too.
LEMMA MemInsert ==
  ASSUME MemInv, NEW c \in Clients, PutInsert(c), arg[c] \notin messages
  PROVE  MemInv'
<1>0. /\ pc[c] = "put" /\ msgWriter = None /\ msgWriter' = c
      /\ messages' = messages \cup {arg[c]}
      /\ pc' = [pc EXCEPT ![c] = "push"]
      /\ UNCHANGED <<arg, query, out, boards, agent_personas, by_board, idxReaders>>
    BY DEF PutInsert, maps
<1>1. arg[c] \in Msgs /\ Matches(messages, by_board) /\ messages' \ {arg[c]} = messages
    BY <1>0 DEF MemInv, CallInv
<1>2. /\ pc' \in [Clients -> {"idle", "put", "push", "list", "read"}]
      /\ pc'[c] = "push" /\ \A d \in Clients \ {c} : pc'[d] = pc[d]
      /\ \A d \in Clients : pc[d] # "push" /\ d # None
  <2>1. pc \in [Clients -> {"idle", "put", "push", "list", "read"}]
      BY DEF MemInv, MemTypeOK
  <2>2. \A d \in Clients : d # None
      BY StoreAssumption
  <2>3. \A d \in Clients : pc[d] = "push" <=> msgWriter = d
      BY DEF MemInv, CallInv
  <2> QED
      BY <1>0, <2>1, <2>2, <2>3
<1>3. MemTypeOK'
    BY <1>0, <1>1, <1>2 DEF MemInv, MemTypeOK
<1>4. (Matches(messages \ {arg[c]}, by_board))'
    BY <1>0, <1>1 DEF Matches
<1>5. ASSUME NEW d \in Clients PROVE CallInv(d)'
  <2>1. CASE d = c
      BY <1>0, <1>1, <1>2, <1>4, <2>1 DEF CallInv
  <2>2. CASE d # c
      BY <1>0, <1>2, <2>2 DEF MemInv, CallInv
  <2> QED
      BY <2>1, <2>2
<1>6. msgWriter' # None /\ out' = [d \in Clients |-> out'[d]]
    BY <1>0, StoreAssumption DEF MemInv
<1> QED
    BY <1>3, <1>5, <1>6 DEF MemInv

\* The push: the index lists the new message too, and the locks are free.
LEMMA MemPush ==
  ASSUME MemInv, NEW c \in Clients, PutPush(c)
  PROVE  /\ MemInv' /\ arg[c] \in Msgs \ (messages \ {arg[c]})
         /\ Matches(messages \ {arg[c]}, by_board) /\ by_board' = With(by_board, arg[c])
<1>0. /\ pc[c] = "push" /\ msgWriter' = None
      /\ by_board' = [by_board EXCEPT ![BoardOf[arg[c]]] = Append(@, arg[c])]
      /\ MemAnswer(c, PutOk)
      /\ UNCHANGED <<boards, agent_personas, messages, idxReaders>>
    BY DEF PutPush, maps
<1>1. /\ arg[c] \in Msgs /\ arg[c] \in messages /\ messages \subseteq Msgs
      /\ Matches(messages \ {arg[c]}, by_board) /\ msgWriter = c
      /\ by_board \in [Slugs -> Seq(Msgs)]
    BY <1>0 DEF MemInv, CallInv, MemTypeOK
<1>2. by_board' = With(by_board, arg[c]) /\ by_board' \in [Slugs -> Seq(Msgs)]
    BY <1>0, <1>1, WithType DEF With
<1>3. Matches((messages \ {arg[c]}) \cup {arg[c]}, With(by_board, arg[c]))
    BY <1>1, AddMatches
<1>4. (messages \ {arg[c]}) \cup {arg[c]} = messages
    BY <1>1
<1>5. Matches(messages, by_board)'
  <2>1. Matches(messages', by_board')
      BY <1>0, <1>2, <1>3, <1>4
  <2> QED
      BY <2>1 DEF Matches
<1>6. \A d \in Clients : d # c => pc[d] # "push"
    BY <1>1 DEF MemInv, CallInv
<1>7. /\ pc' \in [Clients -> {"idle", "put", "push", "list", "read"}]
      /\ arg' \in [Clients -> Msgs \cup {None}]
      /\ query' \in [Clients -> (Slugs \X Limits) \cup {None}]
      /\ out' = [d \in Clients |-> out'[d]]
      /\ pc'[c] = "idle"
      /\ \A d \in Clients \ {c} : pc'[d] = pc[d] /\ arg'[d] = arg[d] /\ query'[d] = query[d]
    BY <1>0, MemAnswerInv
<1>8. ASSUME NEW d \in Clients PROVE CallInv(d)'
  <2>1. pc'[d] # "push" /\ msgWriter' # d
      BY <1>0, <1>6, <1>7, StoreAssumption
  <2>2. CASE d = c
      BY <1>7, <2>1, <2>2 DEF CallInv
  <2>3. CASE d # c
      BY <1>7, <2>1, <2>3 DEF MemInv, CallInv
  <2> QED
      BY <2>2, <2>3
<1>9. MemTypeOK'
    BY <1>0, <1>2, <1>7 DEF MemInv, MemTypeOK
<1> QED
    BY <1>1, <1>2, <1>5, <1>7, <1>8, <1>9 DEF MemInv

\* The other two maps are not part of what the messages depend on.
LEMMA MemOtherMaps ==
  ASSUME MemInv,
         boards' \in [Slugs -> Vals \cup {None}],
         agent_personas' \in [Handles -> Vals \cup {None}],
         UNCHANGED <<by_board, messages, msgWriter, idxReaders, pc, arg, query, out>>
  PROVE  MemInv'
<1>1. MemTypeOK'
    BY DEF MemInv, MemTypeOK
<1>2. ASSUME NEW d \in Clients PROVE CallInv(d)'
    BY DEF MemInv, CallInv, Matches
<1> QED
    BY <1>1, <1>2 DEF MemInv, Matches

\* Every step keeps the invariant.
LEMMA MemStepInv == MemInv /\ [MemNext]_(memVars) => MemInv'
<1> SUFFICES ASSUME MemInv, [MemNext]_(memVars) PROVE MemInv'
    OBVIOUS
<1>1. CASE UNCHANGED memVars
  <2>1. /\ UNCHANGED <<by_board, messages, msgWriter, idxReaders, pc, arg, query, out>>
        /\ boards' = boards /\ agent_personas' = agent_personas
      BY <1>1 DEF memVars
  <2> QED
      BY <2>1, MemOtherMaps DEF MemInv, MemTypeOK
<1>2. ASSUME NEW c \in Clients, NEW m \in Msgs, MemCallPut(c, m) PROVE MemInv'
  <2>1. /\ pc[c] # "push" /\ pc' = [pc EXCEPT ![c] = "put"]
        /\ arg' \in [Clients -> Msgs \cup {None}] /\ arg'[c] \in Msgs
        /\ query' = query /\ query \in [Clients -> (Slugs \X Limits) \cup {None}]
        /\ \A d \in Clients \ {c} : arg'[d] = arg[d]
        /\ UNCHANGED <<maps, by_board, messages, msgWriter, out, idxReaders>>
      BY <1>2 DEF MemCallPut, MemInv, MemTypeOK
  <2> QED
      BY <2>1, MemBegin
<1>3. ASSUME NEW c \in Clients, NEW m \in Msgs, MemGetMessage(c, m) PROVE MemInv'
    BY <1>3, MemRead DEF MemGetMessage
<1>4. ASSUME NEW c \in Clients, NEW s \in Slugs, NEW n \in Limits, CallList(c, s, n)
      PROVE  MemInv'
  <2>1. /\ pc[c] # "push" /\ pc' = [pc EXCEPT ![c] = "list"]
        /\ query' \in [Clients -> (Slugs \X Limits) \cup {None}]
        /\ query'[c] \in Slugs \X Limits
        /\ arg' = arg /\ arg \in [Clients -> Msgs \cup {None}]
        /\ \A d \in Clients \ {c} : query'[d] = query[d]
        /\ UNCHANGED <<maps, by_board, messages, msgWriter, out, idxReaders>>
      BY <1>4 DEF CallList, MemInv, MemTypeOK
  <2> QED
      BY <2>1, MemBegin
<1>5. ASSUME NEW c \in Clients, MemMessageCount(c) PROVE MemInv'
    BY <1>5, MemRead DEF MemMessageCount
<1>6. ASSUME NEW c \in Clients, PutInsert(c) PROVE MemInv'
  <2>1. CASE arg[c] \in messages
      BY <1>6, <2>1, MemRead DEF PutInsert
  <2> QED
      BY <1>6, <2>1, MemInsert
<1>7. ASSUME NEW c \in Clients, PutPush(c) PROVE MemInv'
    BY <1>7, MemPush
<1>8. ASSUME NEW c \in Clients, ListLockIndex(c) PROVE MemInv'
  <2>1. /\ pc[c] = "list" /\ pc' = [pc EXCEPT ![c] = "read"]
        /\ query' = query /\ query \in [Clients -> (Slugs \X Limits) \cup {None}]
        /\ query[c] \in Slugs \X Limits
        /\ arg' = arg /\ arg \in [Clients -> Msgs \cup {None}]
        /\ idxReaders' = idxReaders \cup {c}
        /\ UNCHANGED <<maps, by_board, messages, msgWriter, out>>
      BY <1>8 DEF ListLockIndex, MemInv, MemTypeOK, CallInv
  <2> QED
      BY <2>1, MemBegin
<1>9. ASSUME NEW c \in Clients, ListRead(c) PROVE MemInv'
    BY <1>9, MemRead DEF ListRead
<1>10. ASSUME NEW s \in Slugs, NEW v \in Vals, MemPutBoard(s, v) PROVE MemInv'
    BY <1>10, MemOtherMaps DEF MemPutBoard, MemInv, MemTypeOK
<1>11. ASSUME NEW h \in Handles, NEW v \in Vals \cup {None}, MemSetPersona(h, v)
       PROVE  MemInv'
    BY <1>11, MemOtherMaps DEF MemSetPersona, MemInv, MemTypeOK
<1> QED
    BY <1>1, <1>2, <1>3, <1>4, <1>5, <1>6, <1>7, <1>8, <1>9, <1>10, <1>11
       DEF MemNext, MemStep

\* The index and the message map say the same of a message.
LEMMA MemAgree ==
  ASSUME MemTypeOK, Matches(messages, by_board)
  PROVE  /\ IndexMatchesMessages
         /\ \A m \in Msgs : m \in messages <=> m \in MemAbstract!ToSet(by_board[BoardOf[m]])
         /\ MemAbstract!Stored = messages
<1> DEFINE T(s) == {by_board[s][i] : i \in 1 .. Len(by_board[s])}
<1>1. \A s \in Slugs : DOMAIN by_board[s] = 1 .. Len(by_board[s])
    BY DEF MemTypeOK
<1>2. \A m \in messages : m \in Msgs /\ BoardOf[m] \in Slugs
    BY StoreAssumption DEF MemTypeOK
<1>3. \A s \in Slugs : ToSet(by_board[s]) = T(s) /\ MemAbstract!ToSet(by_board[s]) = T(s)
    BY <1>1 DEF ToSet, MemAbstract!ToSet
<1>4. ASSUME NEW s \in Slugs, NEW m
      PROVE  m \in T(s) <=> m \in messages /\ BoardOf[m] = s
  <2>1. ASSUME m \in T(s)
        PROVE  m \in messages /\ BoardOf[m] = s
    <3>1. PICK i \in 1 .. Len(by_board[s]) : m = by_board[s][i]
        BY <2>1
    <3> QED
        BY <3>1 DEF Matches
  <2>2. ASSUME m \in messages, BoardOf[m] = s
        PROVE  m \in T(s)
    <3>1. PICK i \in 1 .. Len(by_board[s]) : by_board[s][i] = m
        BY <2>2 DEF Matches
    <3> QED
        BY <3>1
  <2> QED
      BY <2>1, <2>2
<1> HIDE DEF T
<1>5. UNION {T(s) : s \in Slugs} = messages
    BY <1>2, <1>4
<1>6. \A s \in Slugs : IsInjective(by_board[s])
    BY <1>1 DEF Matches, IsInjective
<1>7. /\ UNION {ToSet(by_board[s]) : s \in Slugs} = messages
      /\ MemAbstract!Stored = messages
    BY <1>3, <1>5 DEF MemAbstract!Stored
<1>8. IndexMatchesMessages
    BY <1>3, <1>4, <1>6, <1>7 DEF IndexMatchesMessages, Agree
<1>9. \A m \in Msgs : BoardOf[m] \in Slugs
    BY StoreAssumption
<1> QED
    BY <1>3, <1>4, <1>7, <1>8, <1>9

\* The initial states map to initial states of Store.
LEMMA MemInitMaps == MemInit => MemAbstract!Init
  BY DEF MemInit, MemAbstract!Init, NoResult, MemAbstract!NoResult

\* A listing that finds all its ids is the newest window of the log.
LEMMA ListingIsWindow ==
  ASSUME MemInv, msgWriter = None, NEW s \in Slugs, NEW n \in Limits,
         NEW l \in Listing(s, n)
  PROVE  l = MemAbstract!Window(by_board[s], n)
<1> DEFINE ids == by_board[s]
           start == IF n < Len(ids) THEN Len(ids) - n ELSE 0
           w == [k \in 1 .. (Len(ids) - start) |-> ids[start + k]]
<1>1. ids \in Seq(Msgs) /\ Len(ids) \in Nat /\ n \in Nat
    BY StoreAssumption DEF MemInv, MemTypeOK
<1>2. start \in Nat /\ start <= Len(ids)
    BY <1>1
<1>3. \A i \in 1 .. Len(ids) : ids[i] \in messages
    BY DEF MemInv, Matches
<1>4. PICK q \in InOrder({i \in (start + 1) .. Len(ids) : ids[i] \in messages}) :
            l = [k \in DOMAIN q |-> ids[q[k]]]
    BY DEF Listing
<1>5. {i \in (start + 1) .. Len(ids) : ids[i] \in messages} = (start + 1) .. Len(ids)
  <2>1. \A i \in (start + 1) .. Len(ids) : i \in 1 .. Len(ids)
      BY <1>1, <1>2
  <2> QED
      BY <1>3, <2>1
<1> HIDE DEF start, ids
<1>6. /\ DOMAIN q = 1 .. (Len(ids) - start)
      /\ \A k \in 1 .. (Len(ids) - start) : q[k] = start + k
    BY <1>1, <1>2, <1>4, <1>5, IntervalInOrder
<1>7. l = w
    BY <1>4, <1>6
<1>8. SubSeq(ids, start + 1, Len(ids)) = w
  <2>1. /\ 1 + Len(ids) - (start + 1) = Len(ids) - start
        /\ \A k \in Int : k + (start + 1) - 1 = start + k
      BY <1>1, <1>2
  <2>2. /\ start + 1 \in 1 .. (Len(ids) + 1)
      BY <1>1, <1>2
  <2> QED
      BY <1>1, <1>2, <2>1, <2>2
<1>9. start + 1 = Len(ids) - (IF n < Len(ids) THEN n ELSE Len(ids)) + 1
    BY <1>1 DEF start
<1> QED
    BY <1>7, <1>8, <1>9 DEF MemAbstract!Window, ids

\* The effect of an answer on what Store can see.
LEMMA MemAnswerMaps ==
  ASSUME MemInv, NEW c \in Clients, NEW r, MemAnswer(c, r)
  PROVE  out' = [out EXCEPT ![c] = r]
  BY DEF MemAnswer

\* A put answers when its message is in both maps: a replay at the check, a new
\* message at the push.
LEMMA MemPutMaps ==
  ASSUME MemInv, NEW c \in Clients, PutInsert(c) \/ PutPush(c)
  PROVE  [MemAbstract!Next]_(MemAbstract!vars)
<1>1. CASE PutInsert(c) /\ arg[c] \notin messages
    BY <1>1 DEF PutInsert, maps, MemAbstract!vars
<1>2. CASE PutInsert(c) /\ arg[c] \in messages
  <2>1. /\ arg[c] \in Msgs /\ Matches(messages, by_board)
        /\ UNCHANGED <<boards, agent_personas, by_board>>
        /\ out' = [out EXCEPT ![c] = PutOk]
      BY <1>2, MemAnswerMaps DEF PutInsert, maps, MemInv, CallInv
  <2>2. arg[c] \in MemAbstract!ToSet(by_board[BoardOf[arg[c]]])
      BY <1>2, <2>1, MemAgree DEF MemInv
  <2>3. MemAbstract!PutMessage(c, arg[c])
      BY <2>1, <2>2 DEF MemAbstract!PutMessage, PutOk, NoResult,
         MemAbstract!NoResult
  <2> QED
      BY <2>1, <2>3 DEF MemAbstract!Next
<1>3. CASE PutPush(c)
  <2>1. /\ arg[c] \in Msgs \ (messages \ {arg[c]})
        /\ Matches(messages \ {arg[c]}, by_board) /\ by_board' = With(by_board, arg[c])
      BY <1>3, MemPush
  <2>2. /\ UNCHANGED <<boards, agent_personas>>
        /\ out' = [out EXCEPT ![c] = PutOk]
      BY <1>3, MemAnswerMaps DEF PutPush, maps
  <2>3. BoardOf[arg[c]] \in Slugs
      BY <2>1, StoreAssumption
  <2>4. arg[c] \notin MemAbstract!ToSet(by_board[BoardOf[arg[c]]])
    <3>1. DOMAIN by_board[BoardOf[arg[c]]] = 1 .. Len(by_board[BoardOf[arg[c]]])
        BY <2>3 DEF MemInv, MemTypeOK
    <3>2. \A i \in 1 .. Len(by_board[BoardOf[arg[c]]]) :
            by_board[BoardOf[arg[c]]][i] # arg[c]
        BY <2>1, <2>3 DEF Matches
    <3> QED
        BY <3>1, <3>2 DEF MemAbstract!ToSet
  <2>5. MemAbstract!PutMessage(c, arg[c])
      BY <2>1, <2>2, <2>4 DEF MemAbstract!PutMessage, PutOk, NoResult,
         MemAbstract!NoResult, With
  <2> QED
      BY <2>1, <2>5 DEF MemAbstract!Next
<1> QED
    BY <1>1, <1>2, <1>3

\* Every step of MemoryStore is a step of Store, or none it can see.
LEMMA MemStepMaps ==
  MemInv /\ [MemNext]_(memVars) => [MemAbstract!Next]_(MemAbstract!vars)
<1> SUFFICES ASSUME MemInv, [MemNext]_(memVars)
             PROVE  [MemAbstract!Next]_(MemAbstract!vars)
    OBVIOUS
<1>1. CASE UNCHANGED memVars
    BY <1>1 DEF memVars, MemAbstract!vars
<1>2. ASSUME NEW c \in Clients, NEW m \in Msgs, MemCallPut(c, m)
      PROVE  UNCHANGED MemAbstract!vars
    BY <1>2 DEF MemCallPut, maps, MemAbstract!vars
<1>3. ASSUME NEW c \in Clients, NEW m \in Msgs, MemGetMessage(c, m)
      PROVE  MemAbstract!GetMessage(c, m)
  <2>1. /\ msgWriter = None /\ UNCHANGED <<boards, agent_personas, by_board>>
        /\ out' = [out EXCEPT ![c] =
                     [op |-> "get", n |-> 0,
                      msgs |-> IF m \in messages THEN <<m>> ELSE <<>>]]
      BY <1>3, MemAnswerMaps DEF MemGetMessage, maps
  <2>2. MemAbstract!Stored = messages
      BY <2>1, MemAgree DEF MemInv
  <2> QED
      BY <2>1, <2>2 DEF MemAbstract!GetMessage
<1>4. ASSUME NEW c \in Clients, NEW s \in Slugs, NEW n \in Limits, CallList(c, s, n)
      PROVE  UNCHANGED MemAbstract!vars
    BY <1>4 DEF CallList, maps, MemAbstract!vars
<1>5. ASSUME NEW c \in Clients, MemMessageCount(c)
      PROVE  MemAbstract!MessageCount(c)
  <2>1. /\ msgWriter = None /\ UNCHANGED <<boards, agent_personas, by_board>>
        /\ out' = [out EXCEPT ![c] =
                     [op |-> "count", n |-> Cardinality(messages), msgs |-> <<>>]]
      BY <1>5, MemAnswerMaps DEF MemMessageCount, maps
  <2>2. MemAbstract!Stored = messages
      BY <2>1, MemAgree DEF MemInv
  <2>3. MemAbstract!Cardinality(messages) = Cardinality(messages)
      BY Zenon DEF MemAbstract!Cardinality, Cardinality,
         MemAbstract!IsFiniteSet, IsFiniteSet
  <2> QED
      BY <2>1, <2>2, <2>3 DEF MemAbstract!MessageCount
<1>6. ASSUME NEW c \in Clients, PutInsert(c) \/ PutPush(c)
      PROVE  [MemAbstract!Next]_(MemAbstract!vars)
    BY <1>6, MemPutMaps
<1>7. ASSUME NEW c \in Clients, ListLockIndex(c)
      PROVE  UNCHANGED MemAbstract!vars
    BY <1>7 DEF ListLockIndex, maps, MemAbstract!vars
<1>8. ASSUME NEW c \in Clients, ListRead(c)
      PROVE  \E s \in Slugs, n \in Limits : MemAbstract!ListMessages(c, s, n)
  <2>1. pc[c] = "read" /\ msgWriter = None /\ UNCHANGED <<boards, agent_personas, by_board>>
      BY <1>8 DEF ListRead, maps
  <2>2. query[c] \in Slugs \X Limits
      BY <2>1 DEF MemInv, CallInv
  <2>3. PICK s \in Slugs, n \in Limits : query[c] = <<s, n>>
      BY <2>2
  <2>4. PICK l \in Listing(s, n) :
            MemAnswer(c, [op |-> "list", n |-> 0, msgs |-> l])
    <3>1. query[c][1] = s /\ query[c][2] = n
        BY <2>3
    <3> QED
        BY <1>8, <3>1 DEF ListRead
  <2>5. l = MemAbstract!Window(by_board[s], n)
      BY <2>1, ListingIsWindow
  <2>6. out' = [out EXCEPT ![c] = [op |-> "list", n |-> 0, msgs |-> l]]
      BY <2>4, MemAnswerMaps
  <2>7. MemAbstract!ListMessages(c, s, n)
      BY <2>1, <2>5, <2>6 DEF MemAbstract!ListMessages
  <2> QED
      BY <2>7
<1>9. ASSUME NEW s \in Slugs, NEW v \in Vals, MemPutBoard(s, v)
      PROVE  MemAbstract!PutBoard(s, v)
    BY <1>9 DEF MemPutBoard, MemAbstract!PutBoard
<1>10. ASSUME NEW h \in Handles, NEW v \in Vals \cup {None}, MemSetPersona(h, v)
       PROVE  MemAbstract!SetPersona(h, v)
    BY <1>10 DEF MemSetPersona, MemAbstract!SetPersona
<1> QED
    BY <1>1, <1>2, <1>3, <1>4, <1>5, <1>6, <1>7, <1>8, <1>9, <1>10
       DEF MemNext, MemStep, MemAbstract!Next

\* The store in memory keeps its invariant.
THEOREM MemoryInOrder == MemSpec => []MemInv
<1> QED
    BY MemInitInv, MemStepInv, PTL DEF MemSpec

\* Whenever nobody is inside put_message's critical section, the index and the
\* message map hold the same messages, each once and on its own board.
THEOREM IndexInOrder == MemSpec => []IndexMatchesMessages
<1>1. MemInv => IndexMatchesMessages
  <2> SUFFICES ASSUME MemInv PROVE IndexMatchesMessages
      OBVIOUS
  <2>1. CASE msgWriter = None
      BY <2>1, MemAgree DEF MemInv
  <2>2. CASE msgWriter # None
      BY <2>2 DEF IndexMatchesMessages, Agree
  <2> QED
      BY <2>1, <2>2
<1> QED
    BY <1>1, MemoryInOrder, PTL

\* MemoryStore implements Store too: nobody can observe the message map and the
\* index between the two writes of a put.
THEOREM MemoryRefinement == MemSpec => MemImplementsStore
<1> QED
    BY MemInitMaps, MemStepMaps, MemoryInOrder, PTL
       DEF MemSpec, MemImplementsStore, MemAbstract!Spec
----------------------------------------------------------------------------
(* What the store in memory keeps, and how it can stop *)

\* What is stored stays stored and in its place, and a put that is answered has
\* its message in the index.
MemNothingLost ==
  [][/\ messages \subseteq messages'
     /\ \A s \in Slugs : Grows(by_board[s], by_board'[s])
     /\ \A c \in Clients : (pc[c] \in {"put", "push"} /\ pc'[c] = "idle") =>
          \E i \in 1..Len(by_board'[BoardOf[arg[c]]]) :
             by_board'[BoardOf[arg[c]]][i] = arg[c]]_memVars

\* The client's next step needs no lock that another client holds.
CanMove(c) ==
  \/ pc[c] = "put" /\ msgWriter = None
  \/ pc[c] = "push" /\ idxReaders = {}
  \/ pc[c] = "list"
  \/ pc[c] = "read" /\ msgWriter = None

\* A writer of `messages` and a reader of `by_board`, each waiting for the lock
\* the other one holds.
Embrace(w, r) ==
  /\ msgWriter = w /\ pc[w] = "push"
  /\ r \in idxReaders /\ pc[r] = "read"

\* If calls are under way and none of them can move, the two locks were taken in
\* opposite orders: one put holds `messages` and waits for `by_board`, one
\* listing holds `by_board` and waits for `messages`.
OnlyDeadlock ==
  ((\E c \in Clients : pc[c] # "idle") /\ \A c \in Clients : ~CanMove(c))
     => \E w, r \in Clients : Embrace(w, r)

\* Nothing ever undoes such a pair: neither call returns.
EmbraceIsForEver ==
  [][\A w, r \in Clients : Embrace(w, r) => Embrace(w, r)']_memVars

\* Exactly the listings between their two locks hold by_board.read().
Readers == \A c \in Clients : c \in idxReaders <=> pc[c] = "read"

\* Steps a call still has to take.
MemStepsLeft == [idle |-> 0, push |-> 1, put |-> 2, read |-> 1, list |-> 2]

\* A call only ever moves towards its answer.
MemCallsShrink ==
  [][\A c \in Clients : pc[c] # "idle" =>
       pc'[c] = pc[c] \/ MemStepsLeft[pc'[c]] < MemStepsLeft[pc[c]]]_memVars

\* The steps, as seen by a client that is in a call: its own, and the others'.
LEMMA MemMoves ==
  ASSUME MemInv, MemNext
  PROVE  \/ UNCHANGED <<pc, idxReaders, msgWriter, arg, messages, by_board>>
         \/ \E c \in Clients :
              /\ \A d \in Clients \ {c} : pc'[d] = pc[d] /\ arg'[d] = arg[d]
              /\ \/ /\ pc[c] = "idle" /\ pc'[c] \in {"idle", "put", "list"}
                    /\ UNCHANGED <<idxReaders, msgWriter, messages, by_board>>
                 \/ /\ pc[c] = "put" /\ msgWriter = None /\ pc'[c] = "idle"
                    /\ arg[c] \in messages
                    /\ UNCHANGED <<idxReaders, msgWriter, messages, by_board>>
                 \/ /\ pc[c] = "put" /\ msgWriter = None /\ pc'[c] = "push"
                    /\ msgWriter' = c /\ messages' = messages \cup {arg[c]}
                    /\ UNCHANGED <<idxReaders, by_board>>
                 \/ /\ pc[c] = "push" /\ idxReaders = {} /\ pc'[c] = "idle"
                    /\ msgWriter' = None /\ UNCHANGED <<idxReaders, messages>>
                    /\ by_board' = With(by_board, arg[c])
                 \/ /\ pc[c] = "list" /\ pc'[c] = "read"
                    /\ idxReaders' = idxReaders \cup {c}
                    /\ UNCHANGED <<msgWriter, messages, by_board>>
                 \/ /\ pc[c] = "read" /\ msgWriter = None /\ pc'[c] = "idle"
                    /\ idxReaders' = idxReaders \ {c}
                    /\ UNCHANGED <<msgWriter, messages, by_board>>
<1> DEFINE Others(c) == \A d \in Clients \ {c} : pc'[d] = pc[d] /\ arg'[d] = arg[d]
<1>1. ASSUME NEW c \in Clients, NEW r, MemAnswer(c, r)
      PROVE  pc'[c] = "idle" /\ Others(c)
    BY <1>1, MemAnswerInv
<1>2. ASSUME NEW c \in Clients, NEW l, pc' = [pc EXCEPT ![c] = l],
             \/ arg' = arg \/ \E m : arg' = [arg EXCEPT ![c] = m]
      PROVE  pc'[c] = l /\ Others(c)
    BY <1>2 DEF MemInv, MemTypeOK
<1>3. ASSUME NEW c \in Clients, NEW m \in Msgs, MemCallPut(c, m)
      PROVE  /\ pc[c] = "idle" /\ pc'[c] = "put" /\ Others(c)
             /\ UNCHANGED <<idxReaders, msgWriter, messages, by_board>>
    BY <1>2, <1>3 DEF MemCallPut
<1>4. ASSUME NEW c \in Clients, NEW m \in Msgs, MemGetMessage(c, m)
      PROVE  /\ pc[c] = "idle" /\ pc'[c] = "idle" /\ Others(c)
             /\ UNCHANGED <<idxReaders, msgWriter, messages, by_board>>
    BY <1>1, <1>4 DEF MemGetMessage
<1>5. ASSUME NEW c \in Clients, MemMessageCount(c)
      PROVE  /\ pc[c] = "idle" /\ pc'[c] = "idle" /\ Others(c)
             /\ UNCHANGED <<idxReaders, msgWriter, messages, by_board>>
    BY <1>1, <1>5 DEF MemMessageCount
<1>6. ASSUME NEW c \in Clients, NEW s \in Slugs, NEW n \in Limits, CallList(c, s, n)
      PROVE  /\ pc[c] = "idle" /\ pc'[c] = "list" /\ Others(c)
             /\ UNCHANGED <<idxReaders, msgWriter, messages, by_board>>
    BY <1>2, <1>6 DEF CallList
<1>7. ASSUME NEW c \in Clients, PutInsert(c)
      PROVE  /\ Others(c) /\ pc[c] = "put" /\ msgWriter = None
             /\ \/ /\ pc'[c] = "idle" /\ arg[c] \in messages
                   /\ UNCHANGED <<idxReaders, msgWriter, messages, by_board>>
                \/ /\ pc'[c] = "push" /\ msgWriter' = c
                   /\ messages' = messages \cup {arg[c]}
                   /\ UNCHANGED <<idxReaders, by_board>>
    BY <1>1, <1>2, <1>7 DEF PutInsert
<1>8. ASSUME NEW c \in Clients, PutPush(c)
      PROVE  /\ Others(c) /\ pc[c] = "push" /\ idxReaders = {} /\ pc'[c] = "idle"
             /\ msgWriter' = None /\ UNCHANGED <<idxReaders, messages>>
             /\ by_board' = With(by_board, arg[c])
    BY <1>1, <1>8 DEF PutPush, With
<1>9. ASSUME NEW c \in Clients, ListLockIndex(c)
      PROVE  /\ Others(c) /\ pc[c] = "list" /\ pc'[c] = "read"
             /\ idxReaders' = idxReaders \cup {c}
             /\ UNCHANGED <<msgWriter, messages, by_board>>
    BY <1>2, <1>9 DEF ListLockIndex
<1>10. ASSUME NEW c \in Clients, ListRead(c)
       PROVE  /\ Others(c) /\ pc[c] = "read" /\ msgWriter = None /\ pc'[c] = "idle"
              /\ idxReaders' = idxReaders \ {c}
              /\ UNCHANGED <<msgWriter, messages, by_board>>
    BY <1>1, <1>10 DEF ListRead
<1>11. CASE \/ \E s \in Slugs, v \in Vals : MemPutBoard(s, v)
            \/ \E h \in Handles, v \in Vals \cup {None} : MemSetPersona(h, v)
    BY <1>11 DEF MemPutBoard, MemSetPersona
<1>12. CASE \E c \in Clients :
              \/ \E m \in Msgs : MemCallPut(c, m) \/ MemGetMessage(c, m)
              \/ \E s \in Slugs, n \in Limits : CallList(c, s, n)
              \/ MemMessageCount(c)
    BY <1>3, <1>4, <1>5, <1>6, <1>12
<1>13. CASE \E c \in Clients : MemStep(c)
    BY <1>7, <1>8, <1>9, <1>10, <1>13 DEF MemStep
<1> QED
    BY <1>11, <1>12, <1>13 DEF MemNext

\* The readers of the index are the listings between their two locks.
LEMMA ReadersStep == MemInv /\ Readers /\ [MemNext]_(memVars) => Readers'
<1> SUFFICES ASSUME MemInv, Readers, [MemNext]_(memVars) PROVE Readers'
    OBVIOUS
<1>1. CASE UNCHANGED memVars
    BY <1>1 DEF memVars, Readers
<1>2. CASE MemNext
    BY <1>2, MemMoves DEF Readers
<1> QED
    BY <1>1, <1>2

\* A put's answer finds its message in the index.
LEMMA MemAcked ==
  ASSUME MemInv, MemNext, NEW c \in Clients, pc[c] \in {"put", "push"}, pc'[c] = "idle"
  PROVE  \E i \in 1..Len(by_board'[BoardOf[arg[c]]]) :
            by_board'[BoardOf[arg[c]]][i] = arg[c]
<1>0. arg[c] \in Msgs /\ by_board \in [Slugs -> Seq(Msgs)]
    BY DEF MemInv, CallInv, MemTypeOK
<1>1. CASE pc[c] = "put"
  <2>1. msgWriter = None /\ arg[c] \in messages /\ by_board' = by_board
      BY <1>1, MemMoves
  <2> QED
      BY <2>1 DEF MemInv, Matches
<1>2. CASE pc[c] = "push"
  <2>1. by_board' = With(by_board, arg[c])
      BY <1>2, MemMoves
  <2>2. /\ by_board'[BoardOf[arg[c]]] = Append(by_board[BoardOf[arg[c]]], arg[c])
        /\ by_board[BoardOf[arg[c]]] \in Seq(Msgs)
      BY <1>0, <2>1, WithType
  <2> DEFINE l == by_board[BoardOf[arg[c]]]
  <2>3. /\ Len(l) + 1 \in 1..Len(Append(l, arg[c]))
        /\ Append(l, arg[c])[Len(l) + 1] = arg[c]
      BY <1>0, <2>2
  <2> QED
      BY <2>2, <2>3
<1> QED
    BY <1>1, <1>2

\* The log of a board only ever grows at its end, and an answered put is in it.
THEOREM MemoryKeeps == MemSpec => MemNothingLost
<1>1. MemInv /\ [MemNext]_memVars =>
        [/\ messages \subseteq messages'
         /\ \A s \in Slugs : Grows(by_board[s], by_board'[s])
         /\ \A c \in Clients : (pc[c] \in {"put", "push"} /\ pc'[c] = "idle") =>
              \E i \in 1..Len(by_board'[BoardOf[arg[c]]]) :
                 by_board'[BoardOf[arg[c]]][i] = arg[c]]_memVars
  <2> SUFFICES ASSUME MemInv, MemNext
               PROVE  /\ messages \subseteq messages'
                      /\ \A s \in Slugs : Grows(by_board[s], by_board'[s])
                      /\ \A c \in Clients : (pc[c] \in {"put", "push"} /\ pc'[c] = "idle") =>
                           \E i \in 1..Len(by_board'[BoardOf[arg[c]]]) :
                              by_board'[BoardOf[arg[c]]][i] = arg[c]
      OBVIOUS
  <2>1. messages \subseteq messages'
      BY MemMoves
  <2>2. by_board' = by_board \/ \E m \in Msgs : by_board' = With(by_board, m)
      BY MemMoves DEF MemInv, CallInv
  <2>3. by_board \in [Slugs -> Seq(Msgs)]
      BY DEF MemInv, MemTypeOK
  <2> QED
      BY <2>1, <2>2, <2>3, IndexGrows, MemAcked
<1> QED
    BY <1>1, MemoryInOrder, PTL DEF MemSpec, MemNothingLost

\* MemoryStore can only stop in one way, the inverted lock order of put_message
\* and list_messages: every other configuration has a call that can go on.
THEOREM OneDeadlock == MemSpec => []OnlyDeadlock
<1>1. MemInit => Readers
    BY DEF MemInit, Readers
<1>2. MemInv /\ Readers => OnlyDeadlock
  <2> SUFFICES ASSUME MemInv, Readers, NEW c \in Clients, pc[c] # "idle",
                      \A d \in Clients : ~CanMove(d)
               PROVE  \E w, r \in Clients : Embrace(w, r)
      BY DEF OnlyDeadlock
  <2>1. \A d \in Clients : pc[d] \in {"idle", "put", "push", "list", "read"}
      BY DEF MemInv, MemTypeOK
  <2>2. msgWriter # None
    <3>1. CASE pc[c] = "push"
        BY <3>1, StoreAssumption DEF MemInv, CallInv
    <3>2. CASE pc[c] # "push"
        BY <2>1, <3>2 DEF CanMove
    <3> QED
        BY <3>1, <3>2
  <2>3. PICK w \in Clients : msgWriter = w /\ pc[w] = "push"
      BY <2>2 DEF MemInv, MemTypeOK, CallInv
  <2>4. PICK r \in Clients : r \in idxReaders
      BY <2>3 DEF CanMove, MemInv, MemTypeOK
  <2> QED
      BY <2>3, <2>4 DEF Embrace, Readers
<1> QED
    BY <1>1, <1>2, ReadersStep, MemoryInOrder, PTL DEF MemSpec

\* And from there it never recovers: the writer and the reader wait for ever.
THEOREM DeadlockStays == MemSpec => EmbraceIsForEver
<1>1. MemInv /\ [MemNext]_memVars =>
        [\A w, r \in Clients : Embrace(w, r) => Embrace(w, r)']_memVars
  <2> SUFFICES ASSUME MemInv, MemNext, NEW w \in Clients, NEW r \in Clients, Embrace(w, r)
               PROVE  Embrace(w, r)'
      OBVIOUS
  <2>1. msgWriter = w /\ w # None /\ idxReaders # {}
      BY StoreAssumption DEF Embrace
  <2> QED
      BY <2>1, MemMoves DEF Embrace, MemInv, CallInv
<1> QED
    BY <1>1, MemoryInOrder, PTL DEF MemSpec, EmbraceIsForEver

\* A call moves through its critical sections in one direction.
THEOREM MemoryCallsEnd == MemSpec => MemCallsShrink
<1>1. MemInv /\ [MemNext]_memVars =>
        [\A c \in Clients : pc[c] # "idle" =>
           pc'[c] = pc[c] \/ MemStepsLeft[pc'[c]] < MemStepsLeft[pc[c]]]_memVars
  <2> SUFFICES ASSUME MemInv, MemNext, NEW c \in Clients, pc[c] # "idle", pc'[c] # pc[c]
               PROVE  MemStepsLeft[pc'[c]] < MemStepsLeft[pc[c]]
      OBVIOUS
  <2>1. \/ pc[c] = "put" /\ pc'[c] \in {"push", "idle"}
        \/ pc[c] = "list" /\ pc'[c] = "read"
        \/ pc[c] \in {"push", "read"} /\ pc'[c] = "idle"
      BY MemMoves
  <2> QED
      BY <2>1 DEF MemStepsLeft
<1> QED
    BY <1>1, MemoryInOrder, PTL DEF MemSpec, MemCallsShrink
=============================================================================
