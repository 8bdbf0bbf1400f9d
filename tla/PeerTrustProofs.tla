-------------------------- MODULE PeerTrustProofs --------------------------
(***************************************************************************)
(* Theorems about PeerTrust, for any set of nodes, addresses, endorsements *)
(* and any depth of the web of trust.                                      *)
(***************************************************************************)
EXTENDS PeerTrust, WellFoundedInduction, TLAPS

\* Trust is only ever an operator's gift, and the egress set was copied from
\* the trusted peers of some earlier moment.
Egress == Trusted \subseteq granted /\ targets \subseteq granted

Inv == TypeOK /\ Egress

Levels == {"absent", "unknown", "linked", "trusted"}

\* An empty peer book satisfies the invariant.
LEMMA InvInit == Init => Inv
  BY TrustAssumption DEF Init, Inv, TypeOK, Egress, Trusted

\* An operator who trusts a peer is remembered as having done so.
LEMMA AddPeerInv ==
  ASSUME Inv, NEW n \in Nodes, NEW a \in Addrs,
         NEW level \in {"unknown", "linked", "trusted"}, AddPeer(n, a, level)
  PROVE  Inv'
<1>1. /\ trust' \in [Nodes -> Levels] /\ addr' \in [Nodes -> Addrs \cup {None}]
      /\ \A m \in Nodes : trust'[m] = "absent" <=> addr'[m] = None
    BY TrustAssumption DEF Inv, TypeOK, AddPeer, Levels
<1>2. vouched' \subseteq Nodes /\ granted' \subseteq vouched' /\ granted \subseteq granted'
    BY DEF Inv, TypeOK, AddPeer
<1>3. Trusted' \subseteq granted'
    BY DEF Inv, TypeOK, Egress, Trusted, AddPeer
<1> QED
    BY <1>1, <1>2, <1>3 DEF Inv, TypeOK, Egress, AddPeer, promoVars, Levels

\* Discovery adds peers at the lowest level.
LEMMA DiscoverInv ==
  ASSUME Inv, NEW S \in SUBSET Nodes, NEW infos \in [S -> Addrs], Discover(infos)
  PROVE  Inv'
<1>1. ASSUME NEW m \in Nodes
      PROVE  /\ trust'[m] \in Levels /\ addr'[m] \in Addrs \cup {None}
             /\ trust'[m] = "absent" <=> addr'[m] = None
             /\ trust'[m] = "trusted" <=> trust[m] = "trusted"
  <2>1. CASE trust[m] = "absent" /\ m \in S
      BY <2>1, TrustAssumption DEF Discover, MergeDiscovered, Levels
  <2>2. CASE ~(trust[m] = "absent" /\ m \in S)
      BY <2>2 DEF Discover, MergeDiscovered, Inv, TypeOK, Levels
  <2> QED
      BY <2>1, <2>2
<1>2. trust' \in [Nodes -> Levels] /\ addr' \in [Nodes -> Addrs \cup {None}]
    BY <1>1 DEF Discover, MergeDiscovered
<1>3. Trusted' = Trusted
    BY <1>1 DEF Trusted
<1> QED
    BY <1>1, <1>2, <1>3 DEF Inv, TypeOK, Egress, Discover, promoVars, history, Levels

\* Promotion writes back copies of unknown peers as linked ones.
LEMMA PromoteInv ==
  ASSUME Inv, Promote
  PROVE  Inv'
<1>1. CASE PromoteStart
  <2>1. unknowns' \subseteq Nodes \X Addrs
      BY <1>1 DEF PromoteStart, Inv, TypeOK
  <2> QED
      BY <1>1, <2>1 DEF PromoteStart, Inv, TypeOK, Egress, Trusted, book, history
<1>2. CASE PromoteReadWeb
    BY <1>2 DEF PromoteReadWeb, Inv, TypeOK, Egress, Trusted, book, history
<1>3. CASE PromoteEnd
    BY <1>3 DEF PromoteEnd, Inv, TypeOK, Egress, Trusted, book, history
<1>4. ASSUME NEW u \in unknowns, PromoteOne(u)
      PROVE  Inv'
  <2>1. u[1] \in Nodes /\ u[2] \in Addrs
      BY DEF Inv, TypeOK
  <2>2. CASE UNCHANGED book
      BY <1>4, <2>2 DEF PromoteOne, Inv, TypeOK, Egress, Trusted, book, history
  <2>3. CASE /\ trust' = [trust EXCEPT ![u[1]] = "linked"]
             /\ addr' = [addr EXCEPT ![u[1]] = u[2]]
    <3>1. /\ trust' \in [Nodes -> Levels] /\ addr' \in [Nodes -> Addrs \cup {None}]
          /\ \A m \in Nodes : trust'[m] = "absent" <=> addr'[m] = None
        BY <2>1, <2>3, TrustAssumption DEF Inv, TypeOK, Levels
    <3>2. Trusted' \subseteq Trusted
        BY <2>1, <2>3 DEF Inv, TypeOK, Trusted
    <3> QED
        BY <1>4, <3>1, <3>2 DEF PromoteOne, Inv, TypeOK, Egress, history, Levels
  <2> QED
      BY <1>4, <2>2, <2>3 DEF PromoteOne
<1> QED
    BY <1>1, <1>2, <1>3, <1>4 DEF Promote

\* Every step keeps the invariant.
LEMMA InvStep == Inv /\ [Next]_vars => Inv'
<1> SUFFICES ASSUME Inv, [Next]_vars
             PROVE  Inv'
    OBVIOUS
<1>1. CASE UNCHANGED vars
    BY <1>1 DEF vars, Inv, TypeOK, Egress, Trusted
<1>2. CASE \E n \in Nodes, a \in Addrs, level \in {"unknown", "linked", "trusted"} :
             AddPeer(n, a, level)
    BY <1>2, AddPeerInv
<1>3. CASE \E S \in SUBSET Nodes : \E infos \in [S -> Addrs] : Discover(infos)
    BY <1>3, DiscoverInv
<1>4. CASE \E e \in Vouchers : Endorse(e)
    BY <1>4 DEF Endorse, Inv, TypeOK, Egress, Trusted, book, promoVars, history
<1>5. CASE Promote
    BY <1>5, PromoteInv
<1>6. CASE Broadcast
    BY <1>6 DEF Broadcast, Inv, TypeOK, Egress, Trusted, book, promoVars, history
<1>7. CASE \E n \in Nodes : Send(n)
    BY <1>7 DEF Send, Inv, TypeOK, Egress, Trusted, book, promoVars, history
<1>8. CASE SendFails
    BY <1>8 DEF SendFails, Inv, TypeOK, Egress, Trusted, book, promoVars, history
<1> QED
    BY <1>1, <1>2, <1>3, <1>4, <1>5, <1>6, <1>7, <1>8 DEF Next

\* A frame is only ever sent to a peer an operator made trusted: neither
\* gossip, nor endorsements, nor a promotion that writes old copies back into
\* the book opens an egress (federation's broadcast and promote_via_trust).
THEOREM EgressSafe == Spec => []EgressOnlyGranted
<1>1. Inv => EgressOnlyGranted
    BY DEF Inv, Egress, EgressOnlyGranted
<1> QED
    BY <1>1, InvInit, InvStep, PTL DEF Spec

----------------------------------------------------------------------------
(* The web of trust *)

\* A set of naturals that is not empty has a least element.
LEMMA LeastNat ==
  ASSUME NEW T \in SUBSET Nat, T # {}
  PROVE  \E x \in T : \A y \in T : x <= y
<1> DEFINE R == {p \in Nat \X Nat : p[1] < p[2]}
<1>1. IsWellFoundedOn(R, Nat)
    BY NatLessThanWellFounded, Zenon DEF OpToRel
<1>2. ASSUME NEW x \in Nat, NEW y \in Nat, x < y
      PROVE  <<x, y>> \in R
    BY <1>2
<1> HIDE DEF R
<1>3. PICK x \in T : \A y \in T : ~ (<<y, x>> \in R)
    BY <1>1, WFMin
<1>4. ASSUME NEW y \in T
      PROVE  x <= y
  <2>1. x \in Nat /\ y \in Nat /\ ~(y < x)
      BY <1>2, <1>3
  <2> QED
      BY <2>1
<1> QED
    BY <1>4

\* One more edge of the walk of trusted_from, and the walk's first n edges.
Further(S) == S \cup {n \in Nodes : \E x \in S : <<x, n>> \in web}
Layers(g, from, n) ==
  /\ g \in [0 .. n -> SUBSET Nodes]
  /\ g[0] = from
  /\ \A d \in 1 .. n : g[d] = Further(g[d - 1])

\* The walk can be taken for any number of edges.
LEMMA LayersExist ==
  ASSUME NEW from \in SUBSET Nodes, NEW n \in Nat
  PROVE  \E g : Layers(g, from, n)
<1> DEFINE T == {d \in Nat : ~ \E g : Layers(g, from, d)}
<1> SUFFICES ASSUME T # {}
             PROVE  FALSE
    OBVIOUS
<1>1. PICK x \in T : \A y \in T : x <= y
  <2>1. T \in SUBSET Nat
      OBVIOUS
  <2> HIDE DEF T
  <2> QED
      BY <2>1, LeastNat
<1>2. x \in Nat /\ ~ \E g : Layers(g, from, x)
    OBVIOUS
<1>3. x # 0
  <2> DEFINE g == [d \in 0 .. 0 |-> from]
  <2>1. Layers(g, from, 0)
      BY DEF Layers
  <2> QED
      BY <1>2, <2>1
<1>4. x - 1 \in Nat /\ ~(x <= x - 1) /\ (x - 1) + 1 = x
    BY <1>2, <1>3
<1>5. PICK g : Layers(g, from, x - 1)
    BY <1>1, <1>4
<1> DEFINE h == [d \in 0 .. x |-> IF d = x THEN Further(g[x - 1]) ELSE g[d]]
<1>6. /\ g \in [0 .. (x - 1) -> SUBSET Nodes] /\ g[0] = from
      /\ \A d \in 1 .. (x - 1) : g[d] = Further(g[d - 1])
    BY <1>5 DEF Layers
<1>7. g[x - 1] \in SUBSET Nodes
    BY <1>4, <1>6
<1>8. Further(g[x - 1]) \in SUBSET Nodes
    BY <1>7 DEF Further
<1>9. /\ \A d \in 0 .. (x - 1) : d \in 0 .. x /\ d # x /\ h[d] = g[d]
      /\ h[x] = Further(g[x - 1]) /\ x \in 0 .. x /\ 0 \in 0 .. (x - 1)
      /\ \A d \in 0 .. x : d = x \/ d \in 0 .. (x - 1)
    BY <1>2, <1>4
<1>10. h \in [0 .. x -> SUBSET Nodes]
    BY <1>2, <1>6, <1>8, <1>9
<1> HIDE DEF h
<1>11. ASSUME NEW d \in 1 .. x
       PROVE  h[d] = Further(h[d - 1])
  <2>1. d - 1 \in 0 .. (x - 1) /\ (d = x \/ d \in 1 .. (x - 1))
      BY <1>2, <1>4
  <2>2. h[d - 1] = g[d - 1]
      BY <1>9, <2>1
  <2>3. CASE d = x
      BY <1>9, <2>2, <2>3
  <2>4. CASE d \in 1 .. (x - 1)
    <3>1. d \in 0 .. (x - 1)
        BY <2>4
    <3> QED
        BY <1>6, <1>9, <2>2, <2>4, <3>1
  <2> QED
      BY <2>1, <2>3, <2>4
<1>12. h[0] = from
    BY <1>6, <1>9
<1>13. Layers(h, from, x)
    BY <1>10, <1>11, <1>12 DEF Layers
<1> QED
    BY <1>2, <1>13

\* Two walks from the same roots agree as far as both go.
LEMMA LayersAgree ==
  ASSUME NEW from, NEW g, NEW h, NEW m \in Nat, NEW n \in Nat,
         Layers(g, from, m), Layers(h, from, n), NEW d \in 0 .. m, d \in 0 .. n
  PROVE  g[d] = h[d]
<1> DEFINE T == {x \in Nat : x <= m /\ x <= n /\ g[x] # h[x]}
<1> SUFFICES ASSUME g[d] # h[d]
             PROVE  FALSE
    OBVIOUS
<1>1. d \in T /\ T \in SUBSET Nat
    OBVIOUS
<1>2. PICK x \in T : \A y \in T : x <= y
  <2> HIDE DEF T
  <2> QED
      BY <1>1, LeastNat
<1>3. x \in Nat /\ x <= m /\ x <= n /\ g[x] # h[x]
    OBVIOUS
<1>4. g[0] = h[0]
    BY DEF Layers
<1>5. x - 1 \in Nat /\ x \in 1 .. m /\ x \in 1 .. n /\ x - 1 <= m /\ x - 1 <= n /\ ~(x <= x - 1)
    BY <1>3, <1>4
<1>6. g[x - 1] = h[x - 1]
    BY <1>2, <1>5
<1>7. g[x] = Further(g[x - 1]) /\ h[x] = Further(h[x - 1])
    BY <1>5 DEF Layers
<1> QED
    BY <1>3, <1>6, <1>7

\* The body of the recursive function in TrustedFrom.
Body(f, from) ==
  [d \in Nat |-> IF d = 0 THEN from
                 ELSE f[d - 1] \cup {n \in Nodes : \E x \in f[d - 1] : <<x, n>> \in web}]

\* There is a function that recursion describes.
LEMMA WithinExists ==
  ASSUME NEW from \in SUBSET Nodes
  PROVE  \E f : f = Body(f, from)
<1> DEFINE L(n) == CHOOSE g : Layers(g, from, n)
           f == [n \in Nat |-> L(n)[n]]
<1>1. \A n \in Nat : Layers(L(n), from, n)
    BY LayersExist
<1> HIDE DEF L
<1>2. ASSUME NEW n \in Nat
      PROVE  f[n] = IF n = 0 THEN from ELSE Further(f[n - 1])
  <2>1. CASE n = 0
      BY <1>1, <2>1 DEF Layers
  <2>2. CASE n # 0
    <3>1. n - 1 \in Nat /\ n \in 1 .. n /\ n - 1 \in 0 .. n /\ n - 1 \in 0 .. (n - 1)
        BY <2>2
    <3>2. L(n)[n] = Further(L(n)[n - 1])
        BY <1>1, <3>1 DEF Layers
    <3>3. L(n)[n - 1] = L(n - 1)[n - 1]
        BY <1>1, <3>1, LayersAgree
    <3>4. f[n] = L(n)[n] /\ f[n - 1] = L(n - 1)[n - 1]
        BY <3>1
    <3> QED
        BY <2>2, <3>2, <3>3, <3>4
  <2> QED
      BY <2>1, <2>2
<1>3. f = [n \in Nat |-> f[n]]
    OBVIOUS
<1> HIDE DEF f
<1>4. f = Body(f, from)
    BY <1>2, <1>3 DEF Body, Further
<1> QED
    BY <1>4

\* What TrustedFrom walks.
LEMMA TrustedFromWalks ==
  ASSUME NEW from \in SUBSET Nodes, NEW depth \in Nat
  PROVE  \E f : /\ f[0] = from
                /\ \A d \in Nat : d # 0 => f[d] = Further(f[d - 1])
                /\ TrustedFrom(from, depth) = f[depth] \ from
<1> DEFINE f == CHOOSE g : g = Body(g, from)
<1>1. f = Body(f, from)
    BY WithinExists
<1>2. TrustedFrom(from, depth) = f[depth] \ from
    BY DEF TrustedFrom, Body
<1> HIDE DEF f
<1>3. f[0] = from /\ \A d \in Nat : d # 0 => f[d] = Further(f[d - 1])
    BY <1>1 DEF Body, Further
<1> QED
    BY <1>2, <1>3

\* A chain of k endorsements from one of from to n.
Chained(from, n, k) ==
  \E chain \in [0 .. k -> Nodes] :
    /\ chain[0] \in from
    /\ chain[k] = n
    /\ \A i \in 1 .. k : <<chain[i - 1], chain[i]>> \in web

\* One endorsement more.
LEMMA ChainGrows ==
  ASSUME NEW from \in SUBSET Nodes, NEW x, NEW k \in Nat, Chained(from, x, k),
         NEW n \in Nodes, <<x, n>> \in web
  PROVE  Chained(from, n, k + 1)
<1>1. PICK chain \in [0 .. k -> Nodes] :
        /\ chain[0] \in from
        /\ chain[k] = x
        /\ \A i \in 1 .. k : <<chain[i - 1], chain[i]>> \in web
    BY DEF Chained
<1> DEFINE c == [i \in 0 .. (k + 1) |-> IF i = k + 1 THEN n ELSE chain[i]]
<1>2. c \in [0 .. (k + 1) -> Nodes]
    OBVIOUS
<1>3. c[k + 1] = n /\ \A i \in 0 .. k : c[i] = chain[i]
    OBVIOUS
<1> HIDE DEF c
<1>4. c[0] \in from
    BY <1>1, <1>3
<1>5. ASSUME NEW i \in 1 .. (k + 1)
      PROVE  <<c[i - 1], c[i]>> \in web
  <2>1. CASE i = k + 1
    <3>1. i - 1 = k /\ k \in 0 .. k
        BY <2>1
    <3> QED
        BY <1>1, <1>3, <2>1, <3>1
  <2>2. CASE i \in 1 .. k
    <3>1. i - 1 \in 0 .. k /\ i \in 0 .. k
        BY <2>2
    <3> QED
        BY <1>1, <1>3, <2>2, <3>1
  <2> QED
      BY <2>1, <2>2
<1> QED
    BY <1>2, <1>3, <1>4, <1>5 DEF Chained

\* A node trusted_from returns has a chain of at most depth endorsements.
LEMMA TrustedFromChained ==
  ASSUME NEW from \in SUBSET Nodes, NEW depth \in Nat, NEW n \in TrustedFrom(from, depth)
  PROVE  \E k \in 1 .. depth : Chained(from, n, k)
<1>1. PICK f : /\ f[0] = from
               /\ \A d \in Nat : d # 0 => f[d] = Further(f[d - 1])
               /\ TrustedFrom(from, depth) = f[depth] \ from
    BY TrustedFromWalks
<1> DEFINE Ok(d) == \A m \in f[d] : m \in from \/ \E k \in 1 .. d : Chained(from, m, k)
           T == {d \in Nat : ~Ok(d)}
<1>2. T = {}
  <2> SUFFICES ASSUME T # {}
               PROVE  FALSE
      OBVIOUS
  <2>1. PICK x \in T : \A y \in T : x <= y
    <3>1. T \in SUBSET Nat
        OBVIOUS
    <3> HIDE DEF T
    <3> QED
        BY <3>1, LeastNat
  <2>2. x \in Nat /\ ~Ok(x)
      OBVIOUS
  <2>3. x # 0
      BY <1>1, <2>2
  <2>4. x - 1 \in Nat /\ ~(x <= x - 1)
      BY <2>2, <2>3
  <2>5. Ok(x - 1)
      BY <2>1, <2>4
  <2>6. ASSUME NEW m \in f[x]
        PROVE  m \in from \/ \E k \in 1 .. x : Chained(from, m, k)
    <3>1. f[x] = Further(f[x - 1])
        BY <1>1, <2>2, <2>3
    <3>2. CASE m \in f[x - 1]
      <4>1. m \in from \/ \E k \in 1 .. (x - 1) : Chained(from, m, k)
          BY <2>5, <3>2
      <4>2. \A k \in 1 .. (x - 1) : k \in 1 .. x
          BY <2>2
      <4> QED
          BY <4>1, <4>2
    <3>3. CASE m \in Nodes /\ \E y \in f[x - 1] : <<y, m>> \in web
      <4>1. PICK y \in f[x - 1] : <<y, m>> \in web
          BY <3>3
      <4>2. CASE y \in from
        <5> DEFINE c == [i \in 0 .. 0 |-> y]
        <5>1. c \in [0 .. 0 -> Nodes] /\ c[0] \in from /\ c[0] = y /\ 1 .. 0 = {}
            BY <4>2
        <5>2. Chained(from, y, 0)
          <6> HIDE DEF c
          <6> QED
              BY <5>1 DEF Chained
        <5>3. Chained(from, m, 0 + 1)
            BY <3>3, <4>1, <5>2, ChainGrows
        <5>4. 0 + 1 \in 1 .. x
            BY <2>2, <2>3
        <5> QED
            BY <5>3, <5>4
      <4>3. ASSUME NEW k \in 1 .. (x - 1), Chained(from, y, k)
            PROVE  \E j \in 1 .. x : Chained(from, m, j)
        <5>1. k \in Nat /\ k + 1 \in 1 .. x
            BY <2>2
        <5>2. Chained(from, m, k + 1)
            BY <3>3, <4>1, <4>3, <5>1, ChainGrows
        <5> QED
            BY <5>1, <5>2
      <4> QED
          BY <2>5, <4>1, <4>2, <4>3
    <3> QED
        BY <3>1, <3>2, <3>3 DEF Further
  <2> QED
      BY <2>2, <2>6
<1>3. Ok(depth)
    BY <1>2
<1> QED
    BY <1>1, <1>3

\* While promote_via_trust runs, its roots are peers an operator trusted.
Roots == roots \subseteq granted

\* A chain of endorsements from trusted peers stays one.
LEMMA ChainStays ==
  ASSUME web \subseteq web', NEW S, NEW S2, S \subseteq S2, NEW n, NEW k, Chained(S, n, k)
  PROVE  Chained(S2, n, k)'
  BY DEF Chained

Linked == \A n \in Nodes : trust[n] = "linked" /\ n \notin vouched
            => \E k \in 1 .. MaxDepth : Chained(granted, n, k)

\* Nobody is linked at first.
LEMMA LinkedInit == Init => Roots /\ Linked
  BY DEF Init, Roots, Linked

\* Every step leaves each linked peer an operator's word or a chain.
LEMMA LinkedStep == Inv /\ Roots /\ Linked /\ [Next]_vars => Roots' /\ Linked'
<1> SUFFICES ASSUME Inv, Roots, Linked, [Next]_vars
             PROVE  Roots' /\ Linked'
    OBVIOUS
<1>0. MaxDepth \in Nat /\ roots \subseteq Nodes /\ granted \subseteq Nodes
    BY TrustAssumption DEF Inv, TypeOK
<1>1. web \subseteq web' /\ granted \subseteq granted' /\ vouched \subseteq vouched'
    BY DEF Next, vars, AddPeer, Discover, Endorse, Promote, PromoteStart, PromoteReadWeb, PromoteOne,
           PromoteEnd, Broadcast, Send, SendFails, history
<1>2. Roots'
  <2>1. CASE PromoteStart
      BY <2>1 DEF PromoteStart, Inv, Egress, Roots, history
  <2>2. CASE roots' \subseteq roots
      BY <1>1, <2>2 DEF Roots
  <2> QED
      BY <2>1, <2>2 DEF Next, vars, AddPeer, Discover, Endorse, Promote, PromoteReadWeb, PromoteOne,
                        PromoteEnd, Broadcast, Send, SendFails, promoVars
<1>3. ASSUME NEW n \in Nodes, trust[n] = "linked", n \notin vouched
      PROVE  \E k \in 1 .. MaxDepth : Chained(granted, n, k)'
  <2>1. PICK k \in 1 .. MaxDepth : Chained(granted, n, k)
      BY <1>3 DEF Linked
  <2>2. PICK S, S2 : S = granted /\ S2 = granted'
      OBVIOUS
  <2>3. Chained(S, n, k) /\ S \subseteq S2
      BY <1>1, <2>1, <2>2
  <2>4. Chained(S2, n, k)'
      BY <1>1, <2>3, ChainStays
  <2>5. Chained(granted, n, k)'
      BY <2>2, <2>4 DEF Chained
  <2> QED
      BY <2>5
<1>4. ASSUME NEW n \in Nodes, trust'[n] = "linked", n \notin vouched', trust[n] # "linked"
      PROVE  \E k \in 1 .. MaxDepth : Chained(granted, n, k)'
  <2>1. PICK u \in unknowns : PromoteOne(u) /\ n = u[1] /\ n \in TrustedFrom(roots, MaxDepth)
    <3>1. ASSUME NEW m \in Nodes, NEW a \in Addrs, NEW level \in {"unknown", "linked", "trusted"},
                 AddPeer(m, a, level)
          PROVE  FALSE
        BY <1>4, <3>1 DEF AddPeer, Inv, TypeOK
    <3>2. ASSUME NEW infos, Discover(infos)
          PROVE  FALSE
        BY <1>4, <3>2 DEF Discover, MergeDiscovered
    <3>3. CASE trust' = trust
        BY <1>4, <3>3
    <3>4. ASSUME NEW u \in unknowns, PromoteOne(u)
          PROVE  n = u[1] /\ n \in TrustedFrom(roots, MaxDepth)
        BY <1>4, <3>4 DEF PromoteOne, Inv, TypeOK, book
    <3> QED
        BY <3>1, <3>2, <3>3, <3>4 DEF Next, vars, Endorse, Promote, PromoteStart, PromoteReadWeb,
           PromoteEnd, Broadcast, Send, SendFails, book
  <2>2. PICK k \in 1 .. MaxDepth : Chained(roots, n, k)
      BY <1>0, <2>1, TrustedFromChained
  <2>3. PICK S, S2 : S = roots /\ S2 = granted'
      OBVIOUS
  <2>4. Chained(S, n, k) /\ S \subseteq S2
      BY <1>1, <2>2, <2>3 DEF Roots
  <2>5. Chained(S2, n, k)'
      BY <1>1, <2>4, ChainStays
  <2>6. Chained(granted, n, k)'
      BY <2>3, <2>5 DEF Chained
  <2> QED
      BY <2>6
<1>5. Linked'
    BY <1>1, <1>3, <1>4 DEF Linked
<1> QED
    BY <1>2, <1>5

\* A peer linked without an operator's word has a chain of at most MaxDepth
\* endorsements from peers the operator trusted, although promote_via_trust
\* works from copies of the peer book and the roots may have been demoted since.
THEOREM PromotionsEarned == Spec => []PromotionHasChain
<1>1. Linked => PromotionHasChain
    BY DEF Linked, Chained, PromotionHasChain
<1>2. Spec => []Inv
    BY InvInit, InvStep, PTL DEF Spec
<1> QED
    BY <1>1, <1>2, LinkedInit, LinkedStep, PTL DEF Spec
=============================================================================
