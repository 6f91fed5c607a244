------------------------------ MODULE Requests ------------------------------
(* The requests of sweeps and solves (infra/remote_execution.py): what their digests cover,
   the fixed design of the smoke sweep, and the documents a sweep is started from. *)
EXTENDS Integers, Sequences, FiniteSets

CONSTANT NotAccepted

\* A refusal is raised, and is never taken for the value of a document.
ASSUME NotAcceptedAssumption == NotAccepted \notin Nat

-----------------------------------------------------------------------------
(* Identities.                                                             *)

\* The device, source and lock a worker's image must agree with, the design and its
\* configuration: whether the first case is forced to fail is left out.
SweepDigest(q) == <<q.design, q.config, q.device, q.source, q.lock>>

\* Only the smoke design may be forced to fail.
SweepRequestIsCoherent(q) ==
    /\ q.forced => q.design = "smoke"
    /\ q.samples = (IF q.design = "smoke" THEN 8 ELSE 1000)
    /\ q.digest = SweepDigest(q)

\* Mutant: the attempt is part of what a solve is.
SolveDigestOfAttempt(q) ==
    <<q.kind, q.sweep, q.point, q.device, q.source, q.lock, q.attempt>>

\* The attempt and its forced failure are mechanics, and outside the digest.
SolveDigest(q) == <<q.kind, q.sweep, q.point, q.device, q.source, q.lock>>

\* The request of one attempt of one point in a round of a sweep.
SolveRequest(q, point, attempt, forced) ==
    LET r == [kind |-> q.design, sweep |-> q.digest, point |-> point, device |-> q.device,
              source |-> q.source, lock |-> q.lock, attempt |-> <<attempt, point>>,
              forced |-> forced, digest |-> <<>>]
    IN [r EXCEPT !.digest = SolveDigest(r)]

SolveRequestIsCoherent(r) == (r.forced => r.kind = "smoke") /\ r.digest = SolveDigest(r)

\* A worker and the orchestrator serve a request only from the image it was made for.
SolveMatchesBuild(r, source, lock) == r.source = source /\ r.lock = lock

-----------------------------------------------------------------------------
(* The smoke design.                                                       *)

Permutations8 ==
    <<<<0, 1, 2, 3, 4, 5, 6, 7>>, <<3, 0, 6, 2, 7, 4, 1, 5>>,
      <<6, 2, 5, 1, 4, 0, 7, 3>>, <<1, 5, 3, 7, 0, 4, 2, 6>>>>
SmokeSplit(i) == IF i <= 5 THEN "train" ELSE IF i <= 7 THEN "validation" ELSE "test"

\* The middle of a stratum, in sixteenths of the range.
StratumValue(range, stratum) ==
    16 * range.low + (range.high - range.low) * (2 * stratum + 1)

\* Eight points, one in each stratum of aspect ratio, rotation, scale and Reynolds number.
SmokeDesign(ranges) ==
    [i \in 1 .. 8 |->
        [split |-> SmokeSplit(i), seed |-> i,
         physical |-> [p \in 1 .. 4 |-> StratumValue(ranges[p], Permutations8[p][i])]]]

\* The design of the remote smoke is refused when two of its cases are one.
SmokeCases(ranges) ==
    LET design == SmokeDesign(ranges)
    IN IF Cardinality({<<design[i].physical, design[i].seed>> : i \in 1 .. 8}) = 8
       THEN design ELSE NotAccepted

-----------------------------------------------------------------------------
(* Documents.  A document is a value and the way it is written.            *)

\* Mutant: any encoding of the value is taken.
ParseAny(document, limit) == IF document.size \in 1 .. limit THEN document.value ELSE NotAccepted

\* parse_remote_model: bounded, without a duplicate key, and in the canonical encoding.
ParseModel(document, limit) ==
    IF document.size \in 1 .. limit /\ document.form = "canonical"
    THEN document.value ELSE NotAccepted

\* The reference of a request names the document, and not the request's own digest.
RequestReference(document, limit) ==
    IF ParseModel(document, limit) = NotAccepted THEN NotAccepted ELSE document

\* publish_remote_request: a file of that name is read back and must be the document;
\* otherwise it is written beside and renamed.  The volume maps names to what they hold.
PublishRequest(volume, document, limit) ==
    LET ref == RequestReference(document, limit) IN
    IF ref = NotAccepted THEN [volume |-> volume, answer |-> NotAccepted]
    ELSE IF ref \in DOMAIN volume
    THEN [volume |-> volume, answer |-> IF volume[ref] = document THEN ref ELSE NotAccepted]
    ELSE [volume |-> [r \in DOMAIN volume \cup {ref} |-> IF r = ref THEN document ELSE volume[r]],
          answer |-> ref]

\* load_remote_request: the bytes behind the reference must be those it names.
LoadRequest(volume, ref, limit) ==
    IF ref \in DOMAIN volume /\ volume[ref] = ref THEN ParseModel(volume[ref], limit)
    ELSE NotAccepted

-----------------------------------------------------------------------------
(* Properties.                                                             *)

\* A sweep that is run again with its forced failure on or off resumes the same records,
\* and every attempt of a case presents a token of its own for the same solve; anything
\* that changes the cases or the code gives other records.
IdentitiesSeparate(q1, q2, point, attempt) ==
    LET Coherent(q) == [q EXCEPT !.digest = SweepDigest(q)]
        a == Coherent(q1)
        b == Coherent(q2)
        first == SolveRequest(a, point, 1, a.forced)
        again == SolveRequest(b, point, attempt, FALSE)
    IN (SweepRequestIsCoherent(a) /\ SweepRequestIsCoherent(b)) =>
        /\ a.digest = b.digest <=> [a EXCEPT !.forced = FALSE] = [b EXCEPT !.forced = FALSE]
        /\ SolveRequestIsCoherent(first) /\ SolveRequestIsCoherent(again)
        /\ a.digest = b.digest <=> first.digest = again.digest
        /\ first.attempt = again.attempt <=> attempt = 1
        /\ a.digest = b.digest =>
              \A source, lock \in 1 .. 2 :
                 SolveMatchesBuild(first, source, lock) <=> SolveMatchesBuild(again, source, lock)

\* Each physical parameter visits each of its strata once and stays inside its range, the
\* splits are five, two and one, and no two cases are one, however narrow the ranges.
SmokeIsStratified(ranges) ==
    LET design == SmokeCases(ranges) IN
    /\ design # NotAccepted
    /\ \A p \in 1 .. 4 :
          /\ \A i \in 1 .. 8 : /\ 16 * ranges[p].low <= design[i].physical[p]
                               /\ design[i].physical[p] <= 16 * ranges[p].high
          /\ ranges[p].low < ranges[p].high =>
                Cardinality({design[i].physical[p] : i \in 1 .. 8}) = 8
    /\ \A p, q \in 1 .. 4 : p # q => Permutations8[p] # Permutations8[q]
    /\ <<5, 2, 1>> = [n \in 1 .. 3 |->
          Cardinality({i \in 1 .. 8 : design[i].split = <<"train", "validation", "test">>[n]})]

\* A reference that was answered is loaded as the request it was answered for, whatever is
\* published next to it, and one request has one document.
DocumentsAreKept(first, second, held, limit) ==
    LET one == PublishRequest(held, first, limit)
        two == PublishRequest(one.volume, second, limit)
    IN /\ one.answer # NotAccepted =>
             /\ LoadRequest(two.volume, one.answer, limit) = first.value
             /\ two.answer # NotAccepted =>
                   (LoadRequest(two.volume, two.answer, limit) = first.value
                       <=> two.answer = one.answer)
       /\ \A r \in DOMAIN held : two.volume[r] = held[r]
=============================================================================
