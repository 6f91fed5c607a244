--------------------------- MODULE DemoCoordinator --------------------------
(***************************************************************************)
(* The prediction coordinator of demo/ui.py.  Handlers of one or more      *)
(* browser sessions reserve a sequence number, wait for the coalescing     *)
(* window, predict, and show the result only if their number is still the  *)
(* latest of the session.                                                  *)
(*                                                                         *)
(* Handlers are threads.  What they do under the lock is one action; the   *)
(* clock is read before the lock is taken, so that a handler may enter it  *)
(* with a time that others have already passed.                            *)
(***************************************************************************)
EXTENDS Integers, FiniteSets

CONSTANTS
    Sessions,       \* browser sessions
    Handlers,       \* prediction handlers: concurrency_limit of the events
    Debounce,       \* debounce_seconds, in ticks
    TTL,            \* session_ttl_seconds, in ticks
    MaxSessions,    \* max_sessions
    MaxTime         \* bound of the explored clock

LimitsAssumption ==
    Sessions # {} /\ MaxSessions \in Nat \ {0} /\ TTL \in Nat \ {0}
TimesAssumption == Debounce \in Nat \ {0} /\ MaxTime \in Nat

VARIABLES
    registry,   \* _sessions: the records of the sessions that are kept
    older,      \* its order: pairs of a session and one that was used after it
    handler,    \* where each handler stands, with its ticket
    now         \* the monotonic clock

vars == <<registry, older, handler, now>>

Active == {"reserving", "waiting", "checking", "predicting", "rechecking"}
Shown == {"ready", "error"}

\* superseded and dropped observe what has happened to the ticket's session since the
\* reservation: a newer reservation, and the removal of its record.
Handler ==
    [pc: Active \cup Shown \cup {"idle", "stale"}, session: Sessions, at: Nat,
     sequence: Nat, eligible_at: Nat, ok: BOOLEAN, superseded: BOOLEAN, dropped: BOOLEAN]

TypeOK ==
    /\ DOMAIN registry \subseteq Sessions /\ Cardinality(DOMAIN registry) <= MaxSessions
    /\ registry \in [DOMAIN registry -> [sequence: Nat \ {0}, touched_at: Nat]]
    /\ older \subseteq (DOMAIN registry) \X (DOMAIN registry)
    /\ \A r, s \in DOMAIN registry : <<r, s>> \in older => <<s, r>> \notin older
    /\ \A r, s \in DOMAIN registry : r = s \/ <<r, s>> \in older \/ <<s, r>> \in older
    /\ handler \in [Handlers -> Handler]
    /\ now \in Nat

Free(s) ==
    [pc |-> "idle", session |-> s, at |-> 0, sequence |-> 0, eligible_at |-> 0,
     ok |-> FALSE, superseded |-> FALSE, dropped |-> FALSE]

\* A handler that is free is in no session; the one in its record means nothing.
NoSession == CHOOSE s \in Sessions : TRUE

Init ==
    /\ registry = [s \in {} |-> 0] /\ older = {}
    /\ handler = [h \in Handlers |-> Free(NoSession)]
    /\ now = 0

-----------------------------------------------------------------------------
(* reserve.                                                                *)

\* A control is committed: the handler reads the clock.
Commit(h, s) ==
    /\ handler[h].pc = "idle"
    /\ handler' = [handler EXCEPT ![h] = [Free(s) EXCEPT !.pc = "reserving", !.at = now]]
    /\ UNCHANGED <<registry, older, now>>

\* _prune: the sessions whose time is not over.
Pruned(t) == {s \in DOMAIN registry : t - registry[s].touched_at < TTL}

\* Mutant: a session that is known keeps its number.
NextSequenceKept(kept, s) == IF s \in kept THEN registry[s].sequence ELSE 1

\* The sequence number that follows the one the session has in the registry.
NextSequence(kept, s) == IF s \in kept THEN registry[s].sequence + 1 ELSE 1

\* The session that was used least recently, if any.
Oldest(kept) == {r \in kept : \A s \in kept \ {r} : <<r, s>> \in older}

\* Mutant: room is made when the registry is over its limit, not when it is full.
MakeRoomLate(kept, s) ==
    IF s \notin kept /\ Cardinality(kept) > MaxSessions THEN kept \ Oldest(kept) ELSE kept

\* The sessions that stay when the record of s goes to the end.
MakeRoom(kept, s) ==
    IF s \notin kept /\ Cardinality(kept) >= MaxSessions THEN kept \ Oldest(kept) ELSE kept

\* The registry keeps these sessions, and s becomes the one used last.
Use(kept, s, sequence, t) ==
    /\ registry' = [r \in kept \cup {s} |->
            IF r = s THEN [sequence |-> sequence, touched_at |-> t] ELSE registry[r]]
    /\ older' = (older \cap ((kept \ {s}) \X (kept \ {s}))) \cup ((kept \ {s}) \X {s})

\* What a reservation of handler h does to the tickets of the others.
Observe(h, kept) ==
    [g \in Handlers |->
        IF g = h \/ handler[g].pc \notin Active \ {"reserving"} THEN handler[g]
        ELSE [handler[g] EXCEPT
                !.superseded = @ \/ handler[g].session = handler[h].session,
                !.dropped = @ \/ handler[g].session \notin kept]]

Reserve(h) ==
    LET s == handler[h].session
        t == handler[h].at
        kept == MakeRoom(Pruned(t), s)
        sequence == NextSequence(Pruned(t), s)
    IN
    /\ handler[h].pc = "reserving"
    /\ Use(kept, s, sequence, t)
    /\ handler' = [Observe(h, kept) EXCEPT
            ![h].pc = "waiting", ![h].at = 0, ![h].sequence = sequence,
            ![h].eligible_at = t + Debounce]
    /\ UNCHANGED now

-----------------------------------------------------------------------------
(* resolve.                                                                *)

\* The coalescing window is over, and the handler reads the clock.
Wakes(h) ==
    /\ handler[h].pc = "waiting" /\ now >= handler[h].eligible_at
    /\ handler' = [handler EXCEPT ![h].pc = "checking", ![h].at = now]
    /\ UNCHANGED <<registry, older, now>>

IsLatest(h) ==
    LET s == handler[h].session IN
    s \in DOMAIN registry /\ registry[s].sequence = handler[h].sequence

\* Mutant: touching a session numbers it like a reservation.
TouchedAnew(h) ==
    LET s == handler[h].session IN
    Use(DOMAIN registry, s, NextSequence(DOMAIN registry, s), handler[h].at)

\* _is_latest makes the session the most recently used.
Touched(h) == Use(DOMAIN registry, handler[h].session, handler[h].sequence, handler[h].at)

\* The latest ticket goes on to pc, any other one is stale.
Check(h, pc) ==
    /\ IF IsLatest(h) THEN Touched(h) ELSE UNCHANGED <<registry, older>>
    /\ handler' = [handler EXCEPT ![h].pc = IF IsLatest(h) THEN pc ELSE "stale", ![h].at = 0]
    /\ UNCHANGED now

CheckBefore(h) == handler[h].pc = "checking" /\ Check(h, "predicting")

\* The predictor answers, or raises, or answers with another identity.
Predicts(h, ok) ==
    /\ handler[h].pc = "predicting"
    /\ handler' = [handler EXCEPT ![h].pc = "rechecking", ![h].at = now, ![h].ok = ok]
    /\ UNCHANGED <<registry, older, now>>

\* Mutant: the answer is shown without another look at the registry.
CheckAfterNever(h) ==
    /\ handler[h].pc = "rechecking"
    /\ handler' = [handler EXCEPT ![h].pc = IF handler[h].ok THEN "ready" ELSE "error"]
    /\ UNCHANGED <<registry, older, now>>

CheckAfter(h) ==
    handler[h].pc = "rechecking" /\ Check(h, IF handler[h].ok THEN "ready" ELSE "error")

\* The outcome has been given to the browser; the handler is free again.
Release(h) ==
    /\ handler[h].pc \in Shown \cup {"stale"}
    /\ handler' = [handler EXCEPT ![h] = Free(NoSession)]
    /\ UNCHANGED <<registry, older, now>>

-----------------------------------------------------------------------------
Tick ==
    /\ now < MaxTime
    /\ now' = now + 1
    /\ UNCHANGED <<registry, older, handler>>

Next ==
    \/ \E h \in Handlers :
        \/ \E s \in Sessions : Commit(h, s)
        \/ Reserve(h)
        \/ Wakes(h)
        \/ CheckBefore(h)
        \/ \E ok \in BOOLEAN : Predicts(h, ok)
        \/ CheckAfter(h)
        \/ Release(h)
    \/ Tick

Spec == Init /\ [][Next]_vars

-----------------------------------------------------------------------------
(* Properties.                                                             *)

\* Last commit wins: an outcome that is shown belongs to the latest reservation of its
\* session.  The registry may forget a session while its handlers work.
LastCommitWins == \A h \in Handlers : handler[h].pc \in Shown => ~handler[h].superseded

\* What the code does guarantee: only a session that the registry has forgotten since
\* can show a superseded outcome.
LastCommitWinsWhileKept ==
    \A h \in Handlers :
        handler[h].pc \in Shown => ~handler[h].superseded \/ handler[h].dropped

\* Nothing is discarded without need: a stale ticket was superseded or forgotten, so the
\* last commit of a session that the registry keeps is shown.
StaleIsJustified ==
    \A h \in Handlers :
        handler[h].pc = "stale" => handler[h].superseded \/ handler[h].dropped

\* Reservations of a session the registry keeps are numbered upwards: no two handlers of
\* it work under one number.
NumbersAreOwn ==
    \A g, h \in Handlers :
        /\ g # h
        /\ {handler[g].pc, handler[h].pc} \subseteq Active \ {"reserving"}
        /\ handler[g].session = handler[h].session
        /\ handler[g].sequence = handler[h].sequence
        => handler[g].dropped \/ handler[h].dropped
=============================================================================
