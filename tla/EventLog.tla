------------------------------ MODULE EventLog ------------------------------
(***************************************************************************)
(* Telemetry and the logger it ends in (domain/src/telemetry.ts,           *)
(* logger.ts): events are stripped of identifiers and amounts, queued, and *)
(* flushed to the logger, which redacts again.  The constructor drops      *)
(* endpoint and apiKey from the configuration, so that no event is ever    *)
(* sent anywhere else.  A flush may fail all the same: a logger that       *)
(* writes JSON throws at a bigint.                                         *)
(*                                                                         *)
(* The properties and the metadata of an event and the context of a line   *)
(* are sets of leaves: the path of keys, whether it leads through an       *)
(* array, the type of the value and what is left of it.                    *)
(***************************************************************************)
EXTENDS Integers, Sequences, FiniteSets, SequencesExt

CONSTANTS
    MaxQueueSize,   \* 1000 by default
    Loggers,        \* the loggers it is tried with, [level, format]; INFO and
                    \* "human" in the code, unless setLogger is called
    RedactPaths,    \* the values of redactPaths it is tried with
    MaxRecorded,    \* bound: events
    MaxFlushes,     \* bound: flushes
    MaxLogCalls     \* bound: other calls of the logger

ASSUME EventAssumption ==
    /\ MaxQueueSize \in Nat \ {0} /\ {MaxRecorded, MaxFlushes, MaxLogCalls} \subseteq Nat
    /\ Loggers \subseteq [level : {"DEBUG", "INFO", "WARN", "ERROR", "FATAL"},
                          format : {"human", "json"}]

VARIABLES
    options,        \* configuration: telemetry's and the logger's
    handed,         \* what a caller passes as properties, and keeps
    queue,          \* the events to flush
    flushing,       \* the flushes that have sent what they took, and not ended
    lines,          \* what the logger has put out
    measured,       \* the calls of measure under way
    recorded,       \* auxiliary: events recorded so far
    flushes,        \* auxiliary: flushes so far
    logCalls,       \* auxiliary: other calls of the logger so far
    dropped,        \* auxiliary: events shifted out of a full queue
    retried         \* auxiliary: events that a flush took which failed

eventVars == <<options, handed, queue, flushing, lines, measured, recorded, flushes, logCalls,
               dropped, retried>>

Leaf(path, type) == [path |-> path, list |-> FALSE, type |-> type, text |-> "plain"]

\* an event's properties, the caller's over the recorder's
Over(own, callers) ==
    callers \cup {l \in own : \A k \in callers : k.path[1] # l.path[1]}

\* what a caller has at hand
Handed ==
    {Leaf(<<"feature">>, "string"), Leaf(<<"userId">>, "string"),
     Leaf(<<"details", "merchantId">>, "string"),
     Leaf(<<"details", "voucherId">>, "string"),
     [Leaf(<<"carts", "merchantId">>, "string") EXCEPT !.list = TRUE]}

LogOptions ==
    [enabled : BOOLEAN, includePii : BOOLEAN, redactPaths : RedactPaths, logger : Loggers]

EventInit ==
    /\ options \in LogOptions
    /\ handed = Handed /\ queue = <<>> /\ flushing = <<>> /\ lines = <<>>
    /\ measured = {} /\ recorded = 0 /\ flushes = 0 /\ logCalls = 0
    /\ dropped = {} /\ retried = {}

-----------------------------------------------------------------------------
(* The logger                                                              *)

LevelOrder == [DEBUG |-> 0, INFO |-> 1, WARN |-> 2, ERROR |-> 3, FATAL |-> 4]

ShouldLog(level) == LevelOrder[level] >= LevelOrder[options.logger.level]

\* the keys at hand that hold one of DEFAULT_REDACTED_PATHS
Sensitive == {"userId", "merchantId", "amount"}

\* redact goes down into objects, and leaves arrays as they are
Redacted(l) ==
    LET seen == IF l.list THEN {l.path[1]} ELSE ToSet(l.path)
    IN  IF seen \cap Sensitive # {} THEN [l EXCEPT !.text = "[REDACTED]"] ELSE l

\* log, for the line of event id, or of none
Line(level, id, context) ==
    [level |-> level, id |-> id, context |-> {Redacted(l) : l \in context}]

\* formatEntry: JSON.stringify throws at a bigint that redact has left
IsPrintable(line) ==
    options.logger.format = "json" =>
        \A l \in line.context : l.type = "bigint" => l.text # "plain"

\* what a call of the logger adds
Output(level, id, context) ==
    IF ShouldLog(level) THEN <<Line(level, id, context)>> ELSE <<>>

-----------------------------------------------------------------------------
(* Telemetry                                                               *)

IdKeys == {"merchantId", "userId", "benefitId", "voucherId"}
AmountKeys == {"amount", "savings", "totalSavings", "durationMs"}

RedactValue(l) ==
    IF Len(l.path) # 1 THEN l
    ELSE CASE l.path[1] \in IdKeys /\ l.type = "string" -> [l EXCEPT !.text = "hash"]
           [] l.path[1] \in AmountKeys /\ l.type = "number" -> [l EXCEPT !.text = "bucket"]
           [] OTHER -> l

\* the leaves below one of redactPaths are blanked
Blank(l) ==
    IF ~l.list /\ \E path \in options.redactPaths : IsPrefix(path, l.path)
    THEN [l EXCEPT !.text = "[redacted]"] ELSE l

RedactProperties(properties) == {Blank(RedactValue(l)) : l \in properties}

\* a plausible slip: what the caller passes is spread last
RecordedProperties_CallersLast(own, callers) == Over(RedactProperties(own), callers)

RecordedProperties(own, callers) == RedactProperties(Over(own, callers))

\* only the top of properties is copied: below it the caller's own are blanked
AfterRecording(callers) ==
    {IF Len(l.path) > 1 THEN Blank(l) ELSE l : l \in callers}

\* a recorder of each kind: what it puts into properties, whether it takes more
\* from the caller, and whether metadata; record itself takes anything, a bigint too
Recorders ==
    {[own |-> {Leaf(<<"feature">>, "string")}, more |-> TRUE, metadata |-> FALSE],
     [own |-> {Leaf(<<"voucherId">>, "string"), Leaf(<<"savings">>, "number")},
      more |-> TRUE, metadata |-> FALSE],
     [own |-> IF options.includePii THEN {Leaf(<<"userId">>, "string")}
              ELSE {Leaf(<<"pii">>, "boolean")}, more |-> FALSE, metadata |-> FALSE],
     [own |-> {}, more |-> TRUE, metadata |-> TRUE],
     [own |-> {Leaf(<<"points">>, "bigint")}, more |-> FALSE, metadata |-> FALSE]}

Metadata == {Leaf(<<"metadata", "userId">>, "string"), Leaf(<<"metadata", "sessionId">>, "string")}

\* a full queue loses its oldest event, which is warned about
QueueEvent(event) ==
    LET full == Len(queue) >= MaxQueueSize
    IN  /\ queue' = Append(IF full THEN Tail(queue) ELSE queue, event)
        /\ dropped' = IF full THEN dropped \cup {queue[1].id} ELSE dropped
        /\ lines' = IF full THEN lines \o Output("WARN", 0, {}) ELSE lines

\* the metadata of an event is kept as it is
RecordEvent(r) ==
    /\ options.enabled /\ recorded < MaxRecorded
    /\ LET callers == IF r.more THEN handed ELSE {}
       IN  /\ QueueEvent([id |-> recorded + 1,
                          properties |-> RecordedProperties(r.own, callers),
                          metadata |-> IF r.metadata THEN Metadata ELSE {}])
           /\ handed' = IF r.more THEN AfterRecording(handed) ELSE handed
    /\ recorded' = recorded + 1
    /\ UNCHANGED <<options, flushing, measured, flushes, logCalls, retried>>

EventLine(event) == Line("DEBUG", event.id, event.properties)

\* the first n of the events are put out, the next one makes the logger throw
Sendable(sent, n) ==
    ShouldLog("DEBUG") =>
        /\ \A i \in 1..n : IsPrintable(EventLine(sent[i]))
        /\ n < Len(sent) => ~IsPrintable(EventLine(sent[n + 1]))

\* without an endpoint, events are logged, their properties alone
SendEvents(sent, n) ==
    IF ShouldLog("DEBUG") THEN [i \in 1..n |-> EventLine(sent[i])] ELSE <<>>

\* flush, by the timer or a caller, while others may be under way: the queue is
\* emptied and its events are sent
BeginFlush ==
    /\ queue # <<>> /\ flushes < MaxFlushes
    /\ \E n \in 0..Len(queue) :
        /\ Sendable(queue, n)
        /\ ~ShouldLog("DEBUG") => n = Len(queue)
        /\ lines' = lines \o SendEvents(queue, n)
        /\ flushing' = Append(flushing, [events |-> queue, failed |-> n < Len(queue)])
        /\ retried' = retried \cup
                (IF n < Len(queue) THEN {queue[i].id : i \in 1..Len(queue)} ELSE {})
    /\ queue' = <<>>
    /\ flushes' = flushes + 1
    /\ UNCHANGED <<options, handed, measured, recorded, logCalls, dropped>>

\* a plausible slip: the events of a failed flush become the queue again
EndFlush_Restores ==
    /\ flushing # <<>>
    /\ flushing' = Tail(flushing)
    /\ queue' = IF flushing[1].failed THEN flushing[1].events ELSE queue
    /\ lines' = lines \o Output(IF flushing[1].failed THEN "ERROR" ELSE "INFO", 0, {})
    /\ UNCHANGED <<options, handed, measured, recorded, flushes, logCalls, dropped, retried>>

\* after the await of sendEvents, in the order of the flushes; in the meantime
\* events are recorded.  All the events of one that failed are put in front of
\* the queue, however many there are
EndFlush ==
    /\ flushing # <<>>
    /\ flushing' = Tail(flushing)
    /\ queue' = IF flushing[1].failed THEN flushing[1].events \o queue ELSE queue
    /\ lines' = lines \o Output(IF flushing[1].failed THEN "ERROR" ELSE "INFO", 0, {})
    /\ UNCHANGED <<options, handed, measured, recorded, flushes, logCalls, dropped, retried>>

-----------------------------------------------------------------------------
(* Other users of the logger                                               *)

\* measure, around a call that is awaited
Measure ==
    /\ logCalls < MaxLogCalls
    /\ measured' = measured \cup {logCalls} /\ logCalls' = logCalls + 1
    /\ lines' = lines \o Output("DEBUG", 0, handed)
    /\ UNCHANGED <<options, handed, queue, flushing, recorded, flushes, dropped, retried>>

MeasureEnds(m, level) ==
    /\ measured' = measured \ {m}
    /\ lines' = lines \o Output(level, 0, Over(handed, {Leaf(<<"durationMs">>, "number")}))
    /\ UNCHANGED <<options, handed, queue, flushing, recorded, flushes, logCalls, dropped, retried>>

\* logResult and errorWithStack: an error's own context is nested in the line's
LogError ==
    /\ logCalls < MaxLogCalls /\ logCalls' = logCalls + 1
    /\ lines' = lines \o Output("ERROR", 0,
                    Over(handed, {Leaf(<<"error", "context", "amount">>, "number")}))
    /\ UNCHANGED <<options, handed, queue, flushing, measured, recorded, flushes, dropped, retried>>

EventNext ==
    \/ \E r \in Recorders : RecordEvent(r)
    \/ BeginFlush \/ EndFlush
    \/ Measure
    \/ \E m \in measured, level \in {"INFO", "ERROR"} : MeasureEnds(m, level)
    \/ LogError

EventSpec == EventInit /\ [][EventNext]_eventVars

-----------------------------------------------------------------------------
(* What is promised                                                        *)

Readable(leaves) == {l \in leaves : l.text = "plain"}

NotNamed(leaves) ==
    \A l \in Readable(leaves) : Len(l.path) = 1 => l.path[1] \notin IdKeys \cup AmountKeys

\* No identifier and no amount is readable at the top of the properties of an
\* event that is queued, on its way or put out, whoever gave it, nor under a key
\* that the logger redacts anywhere outside arrays in any line; the metadata of
\* an event, which is queued as it is, is in no line (record, redactProperties,
\* redact, sendEvents).
EventsAreAnonymous ==
    /\ \A i \in 1..Len(queue) : NotNamed(queue[i].properties)
    /\ \A f \in 1..Len(flushing) : \A i \in 1..Len(flushing[f].events) :
          NotNamed(flushing[f].events[i].properties)
    /\ \A i \in 1..Len(lines) :
          /\ lines[i].id # 0 => NotNamed(lines[i].context)
          /\ \A l \in lines[i].context : l.path[1] # "metadata"
          /\ \A l \in Readable(lines[i].context) :
                ~l.list => ToSet(l.path) \cap Sensitive = {}

\* While flushes overlap, fail half-way and events are recorded meanwhile, every
\* event has been put out, waits, will be put back by a flush that failed, or
\* was the oldest in a full queue; only the logger's level hides it.  Those that
\* no failed flush took are put out once and in their order, and until a flush
\* fails the queue keeps its size (flush, sendEvents, queueEvent).
EventsAreAccountedFor ==
    LET put == {i \in 1..Len(lines) : lines[i].id \notin {0} \cup retried}
        waits == {i \in 1..Len(queue) : queue[i].id \notin retried}
        failed == {f \in 1..Len(flushing) : flushing[f].failed}
    IN  /\ ShouldLog("DEBUG") =>
              1..recorded \subseteq
                {lines[i].id : i \in 1..Len(lines)} \cup {queue[i].id : i \in 1..Len(queue)}
                  \cup dropped
                  \cup UNION {{flushing[f].events[i].id : i \in 1..Len(flushing[f].events)} :
                                  f \in failed}
        /\ \A i, j \in put : i < j => lines[i].id < lines[j].id
        /\ \A i, j \in waits : i < j => queue[i].id < queue[j].id
        /\ \A i \in put, j \in waits : lines[i].id < queue[j].id
        /\ retried = {} => Len(queue) <= MaxQueueSize
=============================================================================
