------------------------------- MODULE Readers -------------------------------
(* The bounded readers of artifacts (artifacts.py): every size, name, shape and range is
   checked against what the caller expects before a payload is decoded. *)
EXTENDS Integers, Sequences, FiniteSets, FiniteSetsExt, SequencesExt

CONSTANT Unreadable

-----------------------------------------------------------------------------
(* Bytes.                                                                  *)

\* Mutant: the size of the open file is not compared again.
ReadLoose(sized, read, limit, expected) ==
    LET content == SubSeq(read, 1, Min({limit + 1, Len(read)}))
    IN IF Len(sized) <= limit /\ Len(content) <= limit /\ expected \subseteq {content}
       THEN content ELSE Unreadable

\* safe_read_bytes: the size of the open file, then at most one byte more than the limit; a
\* file that grows or shrinks in between is refused, and so are other bytes of the same size
\* when a digest is expected, which is the content itself here.
ReadBytes(sized, read, limit, expected) ==
    LET content == SubSeq(read, 1, Min({limit + 1, Len(read)}))
    IN IF /\ Len(sized) <= limit
          /\ Len(content) <= limit /\ Len(content) = Len(sized)
          /\ expected \subseteq {content}
       THEN content ELSE Unreadable

-----------------------------------------------------------------------------
(* JSON.                                                                   *)

\* The members of a finite set, each behind those that are before it.
InOrder(S, before(_, _)) ==
    [i \in 1 .. Cardinality(S) |-> CHOOSE x \in S : Cardinality({y \in S : before(y, x)}) = i - 1]

\* A document is a tree: node 1 is its root, above[n] is the container of node n
\* and the root has none.
\* _bounded_json_loads walks it with a stack, taking the last entry, and stops at a node
\* that is too deep or at an object that has too many keys, counted over the document.
Children(doc, n) == InOrder({c \in DOMAIN doc.above : doc.above[c] = n}, <)

Visit(doc, s, maxDepth, maxKeys) ==
    LET top == Last(s.stack)
        below == Children(doc, top.node)
        keys == s.keys + (IF doc.object[top.node] THEN Len(below) ELSE 0)
    IN IF s.refused \/ s.stack = <<>> THEN s
       ELSE [refused |-> top.depth > maxDepth \/ keys > maxKeys,
             keys |-> keys,
             stack |-> Front(s.stack)
                       \o [i \in DOMAIN below |-> [node |-> below[i], depth |-> top.depth + 1]]]

JsonIsBounded(doc, maxDepth, maxKeys) ==
    LET start == [refused |-> FALSE, keys |-> 0, stack |-> <<[node |-> 1, depth |-> 1]>>]
    IN ~FoldLeft(LAMBDA s, n : Visit(doc, s, maxDepth, maxKeys), start,
                 [n \in DOMAIN doc.above |-> n]).refused

-----------------------------------------------------------------------------
(* Archives.                                                               *)

\* One member of an NPZ archive: a plain stored or deflated file of bounded size and ratio.
MemberIsSafe(m, limits) ==
    /\ m.plain
    /\ m.size <= limits.member
    /\ m.size <= limits.ratio * Max({1, m.packed})

\* Mutant: the bytes of the member are not those of the described array.
HeaderLoose(m, descriptor, itemBytes) ==
    m.items = descriptor.items /\ ~m.hasObjects /\ ~m.fortran /\ descriptor.order = "C"

\* Its header: what the caller described, in C order and without objects, and the bytes of
\* the data are what is left of the member.
HeaderFits(m, descriptor, itemBytes) ==
    /\ m.items = descriptor.items /\ ~m.hasObjects /\ ~m.fortran
    /\ descriptor.order = "C"
    /\ m.size = m.header + m.items * itemBytes

\* safe_read_npz before it loads an array: exactly the members that were described, none of
\* them twice, and a total that is bounded at every member.
ArchiveIsReadable(members, expected, itemBytes, limits) ==
    LET Total(n) == FoldLeft(LAMBDA t, m : t + m.size, 0, SubSeq(members, 1, n))
    IN /\ Len(members) <= limits.members
       /\ \A i, j \in DOMAIN members : members[i].name = members[j].name => i = j
       /\ {m.name : m \in Range(members)} = DOMAIN expected
       /\ \A i \in DOMAIN members :
             /\ MemberIsSafe(members[i], limits)
             /\ Total(i) <= limits.total
             /\ HeaderFits(members[i], expected[members[i].name], itemBytes)

-----------------------------------------------------------------------------
(* Tensors.                                                                *)

\* The header of a safetensor file is behind a prefix of eight bytes and inside the file.
HeaderIsWhole(fileBytes, headerBytes, limits) ==
    /\ fileBytes >= 8
    /\ headerBytes \in 2 .. limits.header
    /\ 8 + headerBytes <= fileBytes

\* Each range is inside the data region and as long as the shape it stands for.
RangeFits(entry, dataBytes, limits) ==
    /\ 0 <= entry.start /\ entry.start <= entry.end
    /\ entry.end - entry.start = entry.bytes
    /\ entry.end <= dataBytes /\ entry.bytes <= limits.member

\* The ranges in the order of their starts, ends and names, each one beginning where the
\* last one ended.
Before(a, b, entries) ==
    \/ entries[a].start < entries[b].start
    \/ entries[a].start = entries[b].start /\ entries[a].end < entries[b].end
    \/ entries[a].start = entries[b].start /\ entries[a].end = entries[b].end /\ a < b

Sorted(entries) == InOrder(DOMAIN entries, LAMBDA a, b : Before(a, b, entries))

\* Mutant: a range may leave a gap behind the last one.
CursorWithGaps(entries) ==
    FoldLeft(LAMBDA at, n : IF entries[n].start >= at THEN entries[n].end ELSE -1,
             0, Sorted(entries))

Cursor(entries) ==
    FoldLeft(LAMBDA at, n : IF entries[n].start = at THEN entries[n].end ELSE -1,
             0, Sorted(entries))

\* safe_read_tensors before it loads a tensor.
TensorsAreReadable(file, expected, limits) ==
    LET dataBytes == file.bytes - (8 + file.header)
    IN /\ HeaderIsWhole(file.bytes, file.header, limits)
       /\ DOMAIN file.entries = expected
       /\ Cardinality(DOMAIN file.entries) <= limits.count
       /\ \A n \in expected : RangeFits(file.entries[n], dataBytes, limits)
       /\ Cursor(file.entries) = dataBytes /\ dataBytes <= limits.total

-----------------------------------------------------------------------------
(* Properties.                                                             *)

\* Bytes that are returned are those of one moment when a digest is expected, and never
\* more than the limit; a file that changes its size between the two looks is refused.
ReadIsWhole(sized, read, limit, expected) ==
    LET content == ReadBytes(sized, read, limit, expected)
    IN content # Unreadable =>
          /\ Len(content) <= limit /\ Len(content) = Len(sized) /\ content = read
          /\ expected # {} => expected = {content}

\* The walk refuses a document exactly when one of its paths is too long or its objects
\* have too many keys together, whatever the order of the walk.
WalkIsExact(doc, maxDepth, maxKeys) ==
    LET Path[n \in DOMAIN doc.above] == IF n = 1 THEN 1 ELSE 1 + Path[doc.above[n]]
        keys == Cardinality({n \in DOMAIN doc.above \ {1} : doc.object[doc.above[n]]})
    IN JsonIsBounded(doc, maxDepth, maxKeys) <=>
           keys <= maxKeys /\ \A n \in DOMAIN doc.above : Path[n] <= maxDepth

\* Every byte of the data region of a readable tensor file belongs to exactly one tensor,
\* and a file whose tensors share a byte or leave one out is refused.
TensorsTile(file, expected, limits) ==
    LET data == 0 .. file.bytes - (8 + file.header) - 1
        Owners(byte) == {n \in DOMAIN file.entries :
                            file.entries[n].start <= byte /\ byte < file.entries[n].end}
    IN TensorsAreReadable(file, expected, limits) =>
          \A byte \in data : Cardinality(Owners(byte)) = 1

\* What an archive that is accepted unpacks to is what the caller described, member by
\* member, and within the bound on the whole.
ArchiveIsDescribed(members, expected, itemBytes, limits) ==
    ArchiveIsReadable(members, expected, itemBytes, limits) =>
        /\ Len(members) = Cardinality(DOMAIN expected)
        /\ FoldLeft(LAMBDA t, m : t + m.header + expected[m.name].items * itemBytes, 0, members)
              <= limits.total
=============================================================================
