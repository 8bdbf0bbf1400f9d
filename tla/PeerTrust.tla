----------------------------- MODULE PeerTrust -----------------------------
(***************************************************************************)
(* The peer registry of one federation node (agentbbs-federation):         *)
(* operators add peers, gossip discovers them, the web of trust promotes   *)
(* them and a broadcast reaches the trusted ones.  `peers` and `web` are   *)
(* RwLocks; promote_via_trust copies what it needs from the peer book,     *)
(* releases it, and writes its results back one peer at a time.            *)
(***************************************************************************)
EXTENDS Integers, FiniteSets

CONSTANTS
    Nodes,     \* identities this node may hear of
    Addrs,     \* transport addresses
    Vouchers,  \* the <<endorser, subject>> pairs somebody signs
    MaxDepth,  \* the max_depth of promote_via_trust
    None

ASSUME TrustAssumption ==
    /\ Vouchers \subseteq Nodes \X Nodes
    /\ MaxDepth \in Nat
    /\ None \notin Addrs
    /\ Addrs # {}

VARIABLES
    trust,     \* node -> trust level, "absent" when not in the peer book
    addr,      \* node -> address, None when absent
    web,       \* the endorsement edges <<endorser, subject>>
    promo,     \* "idle", "roots" (snapshot taken) or "web" (web.read() held)
    roots,     \* promote_via_trust: the trusted set it copied
    unknowns,  \* promote_via_trust: <<node, addr>> still to look at
    targets,   \* broadcast: trusted peers still to send to
    vouched,   \* history: nodes an operator ever put in the book as linked
               \* or trusted
    granted    \* history: nodes an operator ever made trusted

vars == <<trust, addr, web, promo, roots, unknowns, targets, vouched,
          granted>>

book == <<trust, addr>>
promoVars == <<promo, roots, unknowns>>
history == <<vouched, granted>>

TypeOK ==
    /\ trust \in [Nodes -> {"absent", "unknown", "linked", "trusted"}]
    /\ addr \in [Nodes -> Addrs \cup {None}]
    /\ web \subseteq Vouchers
    /\ promo \in {"idle", "roots", "web"}
    /\ roots \subseteq Nodes
    /\ \A n \in Nodes : trust[n] = "absent" <=> addr[n] = None
    /\ unknowns \subseteq Nodes \X Addrs
    /\ targets \subseteq Nodes
    /\ vouched \subseteq Nodes
    /\ granted \subseteq vouched

Init ==
    /\ trust = [n \in Nodes |-> "absent"]
    /\ addr = [n \in Nodes |-> None]
    /\ web = {}
    /\ promo = "idle"
    /\ roots = {}
    /\ unknowns = {}
    /\ targets = {}
    /\ vouched = {}
    /\ granted = {}

Trusted == {n \in Nodes : trust[n] = "trusted"}

-----------------------------------------------------------------------------
(* The peer book.                                                          *)

\* add_peer: add or replace, by an operator's decision.
AddPeer(n, a, level) ==
    /\ trust' = [trust EXCEPT ![n] = level]
    /\ addr' = [addr EXCEPT ![n] = a]
    /\ vouched' = IF level # "unknown" THEN vouched \cup {n} ELSE vouched
    /\ granted' = IF level = "trusted" THEN granted \cup {n} ELSE granted
    /\ UNCHANGED <<web, promoVars, targets>>

\* Fault: a node another node already vouches for is discovered as trusted.
MergeTrusting(infos) ==
    /\ trust' = [n \in Nodes |-> IF trust[n] = "absent" /\ n \in DOMAIN infos
                                 THEN "trusted" ELSE trust[n]]
    /\ addr' = [n \in Nodes |-> IF trust[n] = "absent" /\ n \in DOMAIN infos
                                THEN infos[n] ELSE addr[n]]

\* PeerBook::merge_discovered.
MergeDiscovered(infos) ==
    /\ trust' = [n \in Nodes |-> IF trust[n] = "absent" /\ n \in DOMAIN infos
                                 THEN "unknown" ELSE trust[n]]
    /\ addr' = [n \in Nodes |-> IF trust[n] = "absent" /\ n \in DOMAIN infos
                                THEN infos[n] ELSE addr[n]]

\* Federator::ingest of a PeerExchange.
Discover(infos) ==
    /\ MergeDiscovered(infos)
    /\ UNCHANGED <<web, promoVars, targets, history>>

-----------------------------------------------------------------------------
(* The web of trust.                                                       *)

\* Federator::endorse of an endorsement whose signature verifies; it waits
\* while promote_via_trust reads the web.
Endorse(e) ==
    /\ promo # "web"
    /\ web' = web \cup {e}
    /\ UNCHANGED <<book, promoVars, targets, history>>

\* Fault: the walk goes one edge too far.
TrustedFromTooFar(from, depth) ==
    LET within[d \in Nat] ==
          IF d = 0 THEN from
          ELSE within[d - 1] \cup {n \in Nodes :
                 \E x \in within[d - 1] : <<x, n>> \in web}
    IN  within[depth + 1] \ from

\* WebOfTrust::trusted_from: the nodes within depth edges of the roots, the
\* roots left out.
TrustedFrom(from, depth) ==
    LET within[d \in Nat] ==
          IF d = 0 THEN from
          ELSE within[d - 1] \cup {n \in Nodes :
                 \E x \in within[d - 1] : <<x, n>> \in web}
    IN  within[depth] \ from

-----------------------------------------------------------------------------
(* promote_via_trust.                                                      *)

\* Copy the roots and the unknown peers, release the book; stop if no root.
PromoteStart ==
    /\ promo = "idle"
    /\ Trusted # {}
    /\ roots' = Trusted
    /\ unknowns' = {<<n, addr[n]>> : n \in {m \in Nodes : trust[m] = "unknown"}}
    /\ promo' = "roots"
    /\ UNCHANGED <<book, web, targets, history>>

\* web.read(), held to the end.
PromoteReadWeb ==
    /\ promo = "roots"
    /\ promo' = "web"
    /\ UNCHANGED <<book, web, roots, unknowns, targets, history>>

\* One turn of the loop: the peer is written back as it was copied.
PromoteOne(u) ==
    /\ promo = "web"
    /\ u \in unknowns
    /\ unknowns' = unknowns \ {u}
    /\ IF u[1] \in TrustedFrom(roots, MaxDepth)
       THEN /\ trust' = [trust EXCEPT ![u[1]] = "linked"]
            /\ addr' = [addr EXCEPT ![u[1]] = u[2]]
       ELSE UNCHANGED book
    /\ UNCHANGED <<web, promo, roots, targets, history>>

PromoteEnd ==
    /\ promo = "web"
    /\ unknowns = {}
    /\ promo' = "idle"
    /\ roots' = {}
    /\ UNCHANGED <<book, web, unknowns, targets, history>>

-----------------------------------------------------------------------------
(* broadcast: announce_board, replicate_message.                           *)

\* Seal once, copy the egress set.
Broadcast ==
    /\ targets = {}
    /\ Trusted # {}
    /\ targets' = Trusted
    /\ UNCHANGED <<book, web, promoVars, history>>

\* One transport.send of the loop.
Send(n) ==
    /\ n \in targets
    /\ targets' = targets \ {n}
    /\ UNCHANGED <<book, web, promoVars, history>>

\* A send fails: the error leaves the loop and the other targets are skipped.
SendFails ==
    /\ targets # {}
    /\ targets' = {}
    /\ UNCHANGED <<book, web, promoVars, history>>

-----------------------------------------------------------------------------

Promote ==
    PromoteStart \/ PromoteReadWeb \/ PromoteEnd \/ \E u \in unknowns : PromoteOne(u)

Next ==
    \/ \E n \in Nodes, a \in Addrs, level \in {"unknown", "linked", "trusted"} :
         AddPeer(n, a, level)
    \/ \E S \in SUBSET Nodes : \E infos \in [S -> Addrs] : Discover(infos)
    \/ \E e \in Vouchers : Endorse(e)
    \/ Promote
    \/ Broadcast \/ (\E n \in Nodes : Send(n)) \/ SendFails

Spec == Init /\ [][Next]_vars

-----------------------------------------------------------------------------

\* Nothing leaves the node for a peer no operator ever trusted, whatever was
\* discovered, endorsed or promoted.
EgressOnlyGranted == targets \subseteq granted

\* A peer that is linked without an operator's word has a chain of at most
\* MaxDepth endorsements from peers the operator trusted.
PromotionHasChain ==
    \A n \in Nodes : trust[n] = "linked" /\ n \notin vouched
        => \E k \in 1 .. MaxDepth : \E chain \in [0 .. k -> Nodes] :
             /\ chain[0] \in granted
             /\ chain[k] = n
             /\ \A i \in 1 .. k : <<chain[i - 1], chain[i]>> \in web
=============================================================================
