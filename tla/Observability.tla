--------------------------- MODULE Observability ---------------------------
(***************************************************************************)
(* Operations that record themselves (observability.py): a context emits a *)
(* start event, times its segments, takes annotations, and emits one       *)
(* terminal event when its body returns or raises an Exception; a          *)
(* cancelled or interrupted body leaves it without one.  The body may emit *)
(* events of its own in between.  Concurrent operations share one bounded  *)
(* in-memory sink; each has its own monotonic timer.                       *)
(* Of the data of an event there is the number of its fields, whether      *)
(* redaction makes one of them longer than an event allows, and the        *)
(* outcome.  A call that the recorder refuses changes nothing and raises   *)
(* in the body, which catches it or not: then it is a Raise.               *)
(***************************************************************************)
EXTENDS Naturals, Sequences, FiniteSets

CONSTANTS
    Operations,
    SinkCapacity,       \* InMemoryEventSink.capacity
    FieldLimit,         \* MAX_EVENT_FIELDS
    TimingFields,       \* the fields that terminal_fields adds: four durations
    OutcomeFields,      \* the outcome, with the summary of an exception when there is one
    MaxClock            \* bound: the readings of the clock

ASSUME ObservabilityAssumption ==
    /\ SinkCapacity \in Nat \ {0} /\ FieldLimit \in Nat /\ TimingFields \in Nat
    /\ OutcomeFields \in [{"succeeded", "failed"} -> Nat] /\ MaxClock \in Nat

Segments == {"compute", "queue", "io"}

VARIABLES
    time,       \* the monotonic clock
    op,         \* the operations
    sink        \* the events captured so far

eventVars == <<time, op, sink>>

Unentered == [pc |-> "idle", started |-> 0, finished |-> 0, segment |-> "none", since |-> 0,
         total |-> [s \in Segments |-> 0], notes |-> 0, grown |-> FALSE,
         body |-> "none", result |-> "none"]

EventKinds == {"started", "noted", "succeeded", "failed"}
Events == [operation: Operations, kind: EventKinds]

ObservabilityTypeOK ==
    /\ time \in 0..MaxClock
    /\ op \in [Operations ->
        [pc: {"idle", "open", "ending", "ended"}, started: 0..MaxClock, finished: 0..MaxClock,
         segment: Segments \cup {"none"}, since: 0..MaxClock,
         total: [Segments -> 0..MaxClock], notes: 0..FieldLimit, grown: BOOLEAN,
         body: {"none", "succeeded", "failed", "interrupted"},
         result: {"none", "succeeded", "failed", "interrupted", "BufferError",
                  "ValidationError"}]]
    /\ sink \in Seq(Events) /\ Len(sink) <= SinkCapacity

EventInit ==
    /\ time = 0
    /\ op = [o \in Operations |-> Unentered]
    /\ sink = <<>>

Tick == time < MaxClock /\ time' = time + 1 /\ UNCHANGED <<op, sink>>

-----------------------------------------------------------------------------
(* The sink and the recorder.                                              *)

\* Mutant: the sink takes one event more than its capacity.
FullLate == Len(sink) > SinkCapacity

\* InMemoryEventSink holds a fixed number of events.
Full == Len(sink) >= SinkCapacity

\* emit: the event is validated, redacted, validated again, and captured while there is room.
Emits(o, kind) == sink' = Append(sink, [operation |-> o, kind |-> kind])

\* operation_context: the timer starts, then the start event is emitted.  Identities that
\* redaction has made too long, or a full sink, raise before the body runs.
Enter(o, grown) ==
    /\ op[o].pc = "idle"
    /\ \/ /\ grown \/ Full
          /\ op' = [op EXCEPT ![o].pc = "ended", ![o].grown = grown,
                              ![o].result = IF grown THEN "ValidationError" ELSE "BufferError"]
          /\ UNCHANGED sink
       \/ /\ ~grown /\ ~Full
          /\ op' = [op EXCEPT ![o].pc = "open", ![o].started = time]
          /\ Emits(o, "started")
    /\ UNCHANGED time

\* recorder.emit, called by the body.
Own(o) ==
    /\ op[o].pc = "open" /\ ~Full
    /\ Emits(o, "noted")
    /\ UNCHANGED <<time, op>>

\* annotate: n new fields, and others replaced, so that whether redaction makes one of them
\* too long may change; together they stay within the limit of an event.
Annotate(o, n, grown) ==
    /\ op[o].pc = "open" /\ op[o].notes + n <= FieldLimit
    /\ op' = [op EXCEPT ![o].notes = @ + n, ![o].grown = grown]
    /\ UNCHANGED <<time, sink>>

\* OperationTimer.segment: one span at a time.
OpenSegment(o, s) ==
    /\ op[o].pc = "open" /\ op[o].segment = "none"
    /\ op' = [op EXCEPT ![o].segment = s, ![o].since = time]
    /\ UNCHANGED <<time, sink>>

\* Mutant: a span that an exception ends is not counted, and stays active.
LeftOpen(record) == record

\* The finally clause of a segment, on every way out of it: its time is added, it is no
\* longer active, and the reading it began with is gone.
Settled(record) ==
    IF record.segment = "none" THEN record
    ELSE [record EXCEPT !.total[record.segment] = @ + (time - record.since),
                        !.segment = "none", !.since = 0]

CloseSegment(o) ==
    /\ op[o].pc = "open" /\ op[o].segment # "none"
    /\ op' = [op EXCEPT ![o] = Settled(@)]
    /\ UNCHANGED <<time, sink>>

\* The body returns, outside every segment, or raises an Exception anywhere.
BodyReturns(o) ==
    /\ op[o].pc = "open" /\ op[o].segment = "none"
    /\ op' = [op EXCEPT ![o].pc = "ending", ![o].body = "succeeded"]
    /\ UNCHANGED <<time, sink>>

Raise(o) ==
    /\ op[o].pc = "open"
    /\ op' = [op EXCEPT ![o] = [Settled(@) EXCEPT !.pc = "ending", !.body = "failed"]]
    /\ UNCHANGED <<time, sink>>

\* A cancelled task, an interrupt from the keyboard or a generator that is closed leaves the
\* body by a BaseException, which no clause of the context takes: nothing is emitted and the
\* timer never finishes.
Interrupt(o) ==
    /\ op[o].pc = "open"
    /\ op' = [op EXCEPT ![o] = [Settled(@) EXCEPT !.pc = "ended", !.body = "interrupted",
                                                 !.result = "interrupted"]]
    /\ UNCHANGED <<time, sink>>

\* Mutant: the terminal event says that the operation succeeded.
Cheerful(record) == "succeeded"

Outcome(record) == record.body

\* terminal_fields adds the durations, and the context the outcome, to the annotations.
TerminalFields(record) == record.notes + TimingFields + OutcomeFields[record.body]

\* The terminal event; finish finds no segment active.  An event with too many fields, or
\* with one that redaction has made too long, or a full sink, raises in place of the
\* operation's own result.
Oversized(record) == TerminalFields(record) > FieldLimit \/ record.grown

End(o) ==
    /\ op[o].pc = "ending"
    /\ \/ /\ Oversized(op[o]) \/ Full
          /\ op' = [op EXCEPT ![o].pc = "ended", ![o].finished = time, ![o].result =
                IF Oversized(op[o]) THEN "ValidationError" ELSE "BufferError"]
          /\ UNCHANGED sink
       \/ /\ ~Oversized(op[o]) /\ ~Full
          /\ op' = [op EXCEPT ![o].pc = "ended", ![o].finished = time,
                              ![o].result = op[o].body]
          /\ Emits(o, Outcome(op[o]))
    /\ UNCHANGED time

EventNext ==
    \/ Tick
    \/ \E o \in Operations :
        \/ Own(o) \/ CloseSegment(o) \/ BodyReturns(o) \/ Raise(o) \/ Interrupt(o) \/ End(o)
        \/ \E grown \in BOOLEAN :
            Enter(o, grown) \/ \E n \in 0..FieldLimit : Annotate(o, n, grown)
        \/ \E s \in Segments : OpenSegment(o, s)

EventSpec == EventInit /\ [][EventNext]_eventVars

-----------------------------------------------------------------------------
(* Properties.                                                             *)

\* Where the events of an operation are in the sink, and what they can tell of it.
EventsOf(o) == {n \in DOMAIN sink : sink[n].operation = o}

TellsNothing(o) == EventsOf(o) = {}
TellsStart(o) ==
    \E m \in EventsOf(o) :
        /\ sink[m].kind = "started"
        /\ \A n \in EventsOf(o) \ {m} : m < n /\ sink[n].kind = "noted"
TellsOutcome(o, outcome) ==
    \E first, last \in EventsOf(o) :
        /\ first < last
        /\ sink[first].kind = "started" /\ sink[last].kind = outcome
        /\ \A n \in EventsOf(o) \ {first, last} :
            first < n /\ n < last /\ sink[n].kind = "noted"

\* What the sink tells of an operation is true and complete: one start, the body's own events,
\* and then one end, with the outcome of its body, if the caller saw that outcome; no end
\* while it runs, when the caller saw the recorder fail, or when a cancellation or an
\* interrupt left the body; nothing when it never ran.
EventsTellTheTruth ==
    \A o \in Operations :
        /\ op[o].pc = "idle" => TellsNothing(o)
        /\ op[o].pc \in {"open", "ending"} => TellsStart(o)
        /\ op[o].pc = "ended" =>
            /\ op[o].result \in {"succeeded", "failed"} => TellsOutcome(o, op[o].body)
            /\ op[o].result \notin {"succeeded", "failed"} =>
                IF op[o].body = "none" THEN TellsNothing(o) ELSE TellsStart(o)

\* A caller sees the recorder's failure in place of its own only when the sink was full, when
\* redaction made a string too long for an event, or when its annotations left no room for
\* the terminal fields: with room in both, and no such string, the context is transparent.
MaskingHasACause ==
    \A o \in Operations : op[o].pc = "ended" =>
        /\ op[o].result = "BufferError" => Full
        /\ op[o].result = "ValidationError" =>
            \/ op[o].grown
            \/ /\ op[o].body \in {"succeeded", "failed"}
               /\ op[o].notes > FieldLimit - TimingFields - OutcomeFields[op[o].body]

\* The segments of an operation never overlap, so that together they fit the wall time that
\* its terminal event tells, also when an exception ends one of them; and none stays active,
\* whatever ends the operation.
SegmentsFit ==
    \A o \in Operations : op[o].pc = "ended" =>
        /\ op[o].segment = "none"
        /\ op[o].body \in {"succeeded", "failed"} =>
            op[o].total["compute"] + op[o].total["queue"] + op[o].total["io"]
                <= op[o].finished - op[o].started
=============================================================================
