-------------------------------- MODULE Logging --------------------------------
(***************************************************************************)
(* The agent's log: lib/util/logger.js and lib/logger.js.                  *)
(*                                                                         *)
(* A bootstrap logger is there before the configuration; the agent's own   *)
(* replaces it as the module's export, but whoever has taken a child of    *)
(* the first goes on writing to it.  A logger is a stream: what is written *)
(* goes out while the stream asks for more and waits in a buffer           *)
(* otherwise.  Writing inspects what it is given, and what is inspected    *)
(* may log itself or throw.                                                *)
(*                                                                         *)
(* The stream (readable-stream) is external: push says whether it wants    *)
(* more, and _read is called whenever it does.  One character stands for   *)
(* an entry.  What is logged only once is known by a level and a key, both *)
(* of them the process's and not a logger's.  A logger could change its    *)
(* level or be switched off, but nothing in the agent does that.           *)
(***************************************************************************)
EXTENDS Integers, Sequences, FiniteSets

CONSTANTS
    LogLevels,         \* levels of messages
    MessageKinds,   \* "hostile" ones throw when inspected, "unsayable" ones when the entry they make is
                    \*   to become a text; those that log then are like "plain" ones
    MaxLogBuffer,   \* entries that may wait: MAX_LOG_BUFFER
    MaxLogged       \* bound: entries a logger takes

Info == 30
ASSUME LogBounds == MaxLogBuffer \in Nat /\ MaxLogged \in Nat /\ LogLevels \subseteq Nat /\ Info \in LogLevels

Loggers == {"bootstrap", "agent"}
LogModes == {"always", "once", "oncePer"}

VARIABLES
    loggers,    \* loggers[l]: options, _nestedLog, buffer, reading and what has been pushed; for
                \*   the properties: written, how many were taken, lost and untold, the numbers
                \*   and the keys of those that went nowhere
    seenMessages,    \* levels at which the key has been logged once
    seenPerInterval, \* levels at which it has been logged in the interval that runs
    intervals,  \* intervals[v]: how many have ended, for a level
    threw       \* loggers one of whose messages could not be inspected

logVars == <<loggers, seenMessages, seenPerInterval, intervals, threw>>

NewLogger(level, enabled) ==
    [there |-> TRUE, level |-> level, enabled |-> enabled, nested |-> FALSE, buffer |-> <<>>,
     reading |-> FALSE, piped |-> enabled, out |-> <<>>, written |-> 0, lost |-> {},
     untold |-> {}]

LogTypeOK ==
    /\ DOMAIN loggers = Loggers
    /\ \A l \in Loggers :
          /\ loggers[l].level \in LogLevels /\ loggers[l].written \in 0..MaxLogged
          /\ loggers[l].lost \subseteq 1..loggers[l].written
          /\ Len(loggers[l].buffer) <= MaxLogBuffer
    /\ seenMessages \subseteq LogLevels /\ seenPerInterval \subseteq LogLevels /\ threw \subseteq Loggers

LogInit ==
    /\ loggers = [l \in Loggers |-> IF l = "bootstrap" THEN NewLogger(Info, TRUE)
                                    ELSE [NewLogger(Info, FALSE) EXCEPT !.there = FALSE]]
    /\ seenMessages = {} /\ seenPerInterval = {} /\ threw = {}
    /\ intervals = [v \in LogLevels |-> 0]

-----------------------------------------------------------------------------
\* Loaded with a configuration: the logger that is exported from then on.
CreateLogger(level, enabled) ==
    /\ ~loggers["agent"].there
    /\ loggers' = [loggers EXCEPT !["agent"] = NewLogger(level, enabled)]
    /\ UNCHANGED <<seenMessages, seenPerInterval, intervals, threw>>

TakesLevel(s, level) == s.enabled /\ level >= s.level

Gone(s, entry) == [s EXCEPT !.written = @ + 1, !.lost = @ \cup {s.written + 1}, !.untold = @ \cup {entry.key}]

\* Slip: what does not fit into the buffer is pushed past it.
WrittenPastFull(s, entry, says, wanted) ==
    LET n == s.written + 1
        numbered == [entry EXCEPT !.n = n]
    IN  IF ~says THEN [Gone(s, entry) EXCEPT !.reading = @ /\ wanted]
        ELSE IF s.reading \/ Len(s.buffer) = MaxLogBuffer
               THEN [s EXCEPT !.written = n, !.out = Append(@, numbered), !.reading = wanted]
               ELSE [s EXCEPT !.written = n, !.buffer = Append(@, numbered)]

\* The end of write: out, into the buffer, or nowhere, which is where an entry goes that
\* stringify throws at: the text is empty then, and pushed all the same.  wanted is what
\* push says.
WrittenTo(s, entry, says, wanted) ==
    LET n == s.written + 1
        numbered == [entry EXCEPT !.n = n]
    IN  IF ~says THEN [Gone(s, entry) EXCEPT !.reading = @ /\ wanted]
        ELSE IF s.reading THEN [s EXCEPT !.written = n, !.out = Append(@, numbered), !.reading = wanted]
        ELSE IF Len(s.buffer) < MaxLogBuffer
               THEN [s EXCEPT !.written = n, !.buffer = Append(@, numbered)]
               ELSE Gone(s, entry)

\* What a message that is logged once, or once in an interval, is known by.
OnceKey(mode, level) ==
    CASE mode = "always" -> <<>>
      [] mode = "once" -> <<level>>
      [] mode = "oncePer" -> <<level, intervals[level]>>

\* log, logOnce and logOncePer with write, which says that it has written, wherever the entry
\* went.  A message that logs while it is inspected does so downstream of this call, where
\* nothing is written nor marked; one that throws leaves the logger as if it were still writing.
Log(l, level, mode, kind, wanted) ==
    LET s == loggers[l]
        entry == [n |-> 0, key |-> OnceKey(mode, level)]
        wrote == ~s.nested /\ kind # "hostile"
        mark(seen, m) == seen \cup IF wrote /\ mode = m THEN {level} ELSE {}
    IN  /\ s.there /\ TakesLevel(s, level) /\ s.written < MaxLogged
        /\ ~(mode = "once" /\ level \in seenMessages)
        /\ ~(mode = "oncePer" /\ level \in seenPerInterval)
        /\ loggers' = [loggers EXCEPT ![l] =
               IF s.nested THEN s ELSE IF wrote THEN WrittenTo(s, entry, kind # "unsayable", wanted)
               ELSE [s EXCEPT !.nested = TRUE]]
        /\ seenMessages' = mark(seenMessages, "once")
        /\ seenPerInterval' = mark(seenPerInterval, "oncePer")
        /\ threw' = threw \cup IF ~s.nested /\ kind = "hostile" THEN {l} ELSE {}
        /\ UNCHANGED intervals

\* clearKey, from the timer that the message of the interval has started.
EndInterval(level) ==
    /\ level \in seenPerInterval
    /\ seenPerInterval' = seenPerInterval \ {level}
    /\ intervals' = [intervals EXCEPT ![level] = @ + 1]
    /\ UNCHANGED <<loggers, seenMessages, threw>>

\* _read: the stream a logger is piped to wants more.
ReadLog(l, wanted) ==
    LET s == loggers[l] IN
    /\ s.there /\ s.piped
    /\ loggers' = [loggers EXCEPT ![l] =
           IF s.buffer # <<>> THEN [s EXCEPT !.out = @ \o s.buffer, !.buffer = <<>>, !.reading = wanted]
           ELSE [s EXCEPT !.reading = TRUE]]
    /\ UNCHANGED <<seenMessages, seenPerInterval, intervals, threw>>

LogNext ==
    \/ \E level \in LogLevels, enabled \in BOOLEAN : CreateLogger(level, enabled)
    \/ \E l \in Loggers, level \in LogLevels, mode \in LogModes, kind \in MessageKinds, wanted \in BOOLEAN :
          Log(l, level, mode, kind, wanted)
    \/ \E level \in LogLevels : EndInterval(level)
    \/ \E l \in Loggers, wanted \in BOOLEAN : ReadLog(l, wanted)

LogSpec == LogInit /\ [][LogNext]_logVars

-----------------------------------------------------------------------------
LogKept(l) == loggers[l].out \o loggers[l].buffer
LogEntries == UNION { { <<l, i>> : i \in DOMAIN LogKept(l) } : l \in Loggers }
LogEntryAt(e) == LogKept(e[1])[e[2]]
\* What a logger has taken comes out in its order and whole, but for what went nowhere as the
\* buffer had no room for it or it could not be made a text: nothing that is pushed at once
\* overtakes what waits.
EntriesInOrder ==
    \A l \in Loggers :
        LET s == loggers[l] IN
        /\ \A i \in DOMAIN LogKept(l) \ {1} : LogKept(l)[i - 1].n < LogKept(l)[i].n
        /\ { LogKept(l)[i].n : i \in DOMAIN LogKept(l) } = (1..s.written) \ s.lost
        /\ s.reading => s.buffer = <<>>

\* A message to be logged once is logged once by all loggers together, one for an interval
\* once in it, and it is only taken for logged when a logger has taken it; not, however, only
\* when it has been written ("the status of the write (success/failure)"), as write never says
\* that an entry went nowhere.
OnceIsOnce ==
    /\ \A e, f \in LogEntries :
          LogEntryAt(e).key # <<>> /\ LogEntryAt(e).key = LogEntryAt(f).key => e = f
    /\ \A v \in seenMessages :
          \/ \E e \in LogEntries : LogEntryAt(e).key = <<v>>
          \/ \E l \in Loggers : <<v>> \in loggers[l].untold

\* A logger only stops writing for good once a message has thrown while it was inspected.
MuteOnlyAfterThrow == \A l \in Loggers : loggers[l].nested => l \in threw

\* The log is in order and whole but for what went nowhere, says once what is to be said once, and
\* falls silent for a reason.
LoggingCorrect == LogTypeOK /\ EntriesInOrder /\ OnceIsOnce /\ MuteOnlyAfterThrow
=============================================================================
