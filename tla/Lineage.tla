------------------------------- MODULE Lineage -------------------------------
(* The identity and the ancestry of artifacts (artifacts.py): what the digest of an
   envelope stands for, the typed graph of parents a set of artifacts must form, and the
   dataset, model and report a consumer may be bound to. *)
EXTENDS Integers, Sequences, FiniteSets, FiniteSetsExt, SequencesExt

CONSTANT Refused

\* A refusal is raised, and is never taken for an order of digests.
ASSUME RefusedAssumption == Refused \notin Seq(Nat)

-----------------------------------------------------------------------------
(* Identity.                                                               *)

\* Mutant: the times of the provenance are part of the identity.
ContentDigestStamped(e) == <<e.type, e.metadata, e.members, e.provenance>>

\* Location and wall clock stay outside the digest: what remains is the type, the logical
\* metadata, the members and the provenance without its two times.
ContentDigest(e) ==
    <<e.type, e.metadata, e.members, [e.provenance EXCEPT !.started = 0, !.completed = 0]>>

\* Metadata that names something physical or mutable would enter the identity by the back
\* door, at any depth.
IsLogical(metadata, forbidden) == metadata \cap forbidden = {}

EnvelopeIsCoherent(e, forbidden) ==
    /\ IsLogical(e.metadata, forbidden)
    /\ e.members # {}
    /\ e.sha256 = ContentDigest(e)

\* The lineage node of an envelope: one link for each parent role of its provenance, and
\* the types of the parents are given by the caller for exactly those roles.
EnvelopeNode(e, parentTypes) ==
    IF DOMAIN parentTypes # DOMAIN e.provenance.parents THEN Refused
    ELSE [type |-> e.type, sha256 |-> e.sha256,
          parents |-> {[role |-> r, type |-> parentTypes[r], sha256 |-> e.provenance.parents[r]] :
                       r \in DOMAIN parentTypes}]

-----------------------------------------------------------------------------
(* The graph.                                                              *)

\* Parent types a child of each type must have, and may have.
DefaultPolicy ==
    [run |-> [required |-> {}, allowed |-> {}],
     dataset |-> [required |-> {"run"}, allowed |-> {"run"}],
     model |-> [required |-> {"dataset"}, allowed |-> {"dataset"}],
     baseline |-> [required |-> {"dataset"}, allowed |-> {"dataset"}],
     report |-> [required |-> {"dataset", "model"},
                 allowed |-> {"dataset", "model", "baseline"}]]

\* An artifact identifier is a prefix of the digest.
PrefixOf(digest) == digest \div 10

RolesAreUnique(node) == \A a, b \in node.parents : a.role = b.role => a = b

NoCollision(nodes) ==
    \A i, j \in DOMAIN nodes : i # j => PrefixOf(nodes[i].sha256) # PrefixOf(nodes[j].sha256)

ParentDigests(node) == {link.sha256 : link \in node.parents}

\* Every link names a node of the graph with the type it declares, of a type the child may
\* depend on, and no required type is missing.
LinksHold(nodes, node, policy) ==
    /\ node.type \in DOMAIN policy
    /\ \A link \in node.parents :
          /\ \E i \in DOMAIN nodes : nodes[i].sha256 = link.sha256 /\ nodes[i].type = link.type
          /\ link.type \in policy[node.type].allowed
    /\ policy[node.type].required \subseteq {link.type : link \in node.parents}

\* Mutant: it waits for a parent once for every role.
InDegreePerRole(node) == Cardinality(node.parents)

\* A child waits for each distinct parent once, however many roles name it.
InDegree(node) == Cardinality(ParentDigests(node))

\* The ready node with the least digest is taken, and its children wait for one less.
TakeReady(nodes, s) ==
    LET ready == {d \in DOMAIN s.degree : s.degree[d] = 0 /\ d \notin Range(s.order)}
        next == Min(ready)
        Child(d) == \E i \in DOMAIN nodes :
                       nodes[i].sha256 = d /\ next \in ParentDigests(nodes[i])
    IN IF ready = {} THEN s
       ELSE [order |-> Append(s.order, next),
             degree |-> [d \in DOMAIN s.degree |-> s.degree[d] - (IF Child(d) THEN 1 ELSE 0)]]

Topological(nodes) ==
    LET start == [order |-> <<>>,
                  degree |-> [d \in {n.sha256 : n \in Range(nodes)} |->
                      InDegree(CHOOSE n \in Range(nodes) : n.sha256 = d)]]
    IN FoldLeft(LAMBDA s, i : TakeReady(nodes, s), start, nodes).order

\* verify_lineage: the digests in an order that has every parent before its children.
VerifyLineage(nodes, policy, maxNodes) ==
    IF /\ nodes # <<>> /\ Len(nodes) <= maxNodes
       /\ NoCollision(nodes)
       /\ \A i \in DOMAIN nodes : RolesAreUnique(nodes[i]) /\ LinksHold(nodes, nodes[i], policy)
       /\ Len(Topological(nodes)) = Len(nodes)
    THEN Topological(nodes)
    ELSE Refused

\* verify_consumer_identities: the selected dataset, model and report, found by identifier
\* in the verified graph, of the right types and bound to one another.
ConsumerIsBound(nodes, dataset, model, report) ==
    LET order == VerifyLineage(nodes, DefaultPolicy, 10)
        Named(digest, type) == \E n \in Range(nodes) : n.sha256 = digest /\ n.type = type
        ParentsOf(digest) == ParentDigests(CHOOSE n \in Range(nodes) : n.sha256 = digest)
    IN /\ order # Refused
       /\ Named(dataset, "dataset") /\ Named(model, "model") /\ Named(report, "report")
       /\ dataset \in ParentsOf(model)
       /\ {dataset, model} \subseteq ParentsOf(report)

-----------------------------------------------------------------------------
(* Properties.                                                             *)

Parenthood(nodes) ==
    UNION {{<<link.sha256, n.sha256>> : link \in n.parents} : n \in Range(nodes)}

\* Every digest a node descends from, in at most as many generations as there are nodes.
Ancestors(nodes, digest) ==
    LET Back(set) == set \cup {p[1] : p \in {q \in Parenthood(nodes) : q[2] \in set}}
        first == {p[1] : p \in {q \in Parenthood(nodes) : q[2] = digest}}
    IN FoldLeft(LAMBDA set, n : Back(set), first, nodes)

\* A graph is accepted exactly when no artifact descends from itself, two roles that name
\* one parent included; the order has every parent before its children and does not depend
\* on the order in which the nodes were given.
LineageIsOrdered(nodes, policy) ==
    LET order == VerifyLineage(nodes, policy, Len(nodes))
        legal == /\ nodes # <<>> /\ NoCollision(nodes)
                 /\ \A i \in DOMAIN nodes :
                       RolesAreUnique(nodes[i]) /\ LinksHold(nodes, nodes[i], policy)
        Position(d) == CHOOSE i \in DOMAIN order : order[i] = d
    IN /\ (order # Refused) <=>
              (legal /\ \A n \in Range(nodes) : n.sha256 \notin Ancestors(nodes, n.sha256))
       /\ order # Refused =>
              /\ Range(order) = {n.sha256 : n \in Range(nodes)}
              /\ \A p \in Parenthood(nodes) : Position(p[1]) < Position(p[2])
              /\ order = VerifyLineage(Reverse(nodes), policy, Len(nodes))

\* Whatever a consumer is bound to rests on runs: its dataset, its model and its report all
\* descend from one, and the report is no ancestor of what it speaks for.
EvidenceReachesRuns(nodes, dataset, model, report) ==
    ConsumerIsBound(nodes, dataset, model, report) =>
        /\ \A d \in {dataset, model, report} :
              \E n \in Range(nodes) : n.type = "run" /\ n.sha256 \in Ancestors(nodes, d)
        /\ {dataset, model} \subseteq Ancestors(nodes, report)
        /\ report \notin Ancestors(nodes, dataset) \cup Ancestors(nodes, model)

\* Two artifacts have one identity exactly when everything but their place and their clocks
\* agrees, and then they have the same parents in the graph.
IdentityIsLogical(e, f, types, forbidden) ==
    LET Apart(x) == [x EXCEPT !.uri = 0, !.created = 0,
                              !.provenance.started = 0, !.provenance.completed = 0]
        Published(x) == [x EXCEPT !.sha256 = ContentDigest(x)]
        a == Published(e)
        b == Published(f)
    IN (EnvelopeIsCoherent(a, forbidden) /\ EnvelopeIsCoherent(b, forbidden)) =>
           /\ a.sha256 = b.sha256 <=> Apart(e) = Apart(f)
           /\ a.sha256 = b.sha256 => EnvelopeNode(a, types) = EnvelopeNode(b, types)
=============================================================================
