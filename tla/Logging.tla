------------------------------ MODULE Logging ------------------------------
(***************************************************************************)
(* Loggers and their appenders (src/log/log.cpp): logging through a logger *)
(* or its root, the formatter an appender takes over from its logger, the  *)
(* file an appender reopens, and the listener of the "logs" configuration  *)
(* that rebuilds the loggers while other threads go on logging.            *)
(*                                                                         *)
(* The level is read and written, and clearAppenders() works, without the  *)
(* logger's lock.  A logger that does not exist yet is as getLogger()      *)
(* would create it.  An appender is a record in its logger's list; each    *)
(* logger's file appender has a file of its own.                           *)
(***************************************************************************)
EXTENDS Naturals, Sequences, FiniteSets, SequencesExt

CONSTANTS
    LogNames,     \* names of loggers; "root" is one
    Writers,      \* threads that log
    Restyled,     \* loggers whose formatter the program sets itself
    LogTexts,     \* what the configuration may say of each logger, as YAML nodes
    BadPatterns,  \* patterns that LogFormatter::init() cannot parse
    NoDefine,     \* a name that the configuration does not mention
    MaxReloads, MaxLines, MaxTime   \* bounds

ASSUME LogAssumption == "root" \in LogNames /\ {MaxReloads, MaxLines, MaxTime} \subseteq Nat

DEBUG == 1
INFO  == 2
Defaults == "default"        \* the pattern of Logger::Logger

VARIABLES
    logs,      \* the value of g_log_defines: the LogDefine of each name
    logger,    \* m_level, m_formatter and m_appenders of each logger
    locked,    \* the thread that holds each logger's m_mutex, or "nobody"
    reload,    \* the listener: where it is, the name it is at, and those it has left
    writer,    \* each writing thread: where it is, the logger and the level
    time,      \* external: time(0)
    lines,     \* lines written so far, with the second of each
    file,      \* the lines each logger's file holds
    died,      \* why the process has died, or "no"
    reloads    \* how often the configuration has changed

logVars == <<logs, logger, locked, reload, writer, time, lines, file, died, reloads>>

NewStdout == [type |-> "stdout", m_hasFormatter |-> FALSE, m_formatter |-> "", m_reopenTime |-> 0, open |-> FALSE]

\* LoggerManager(): the root logger writes to standard output
LogInit ==
    /\ logs = [n \in LogNames |-> NoDefine]
    /\ logger = [n \in LogNames |->
           [m_level |-> INFO, m_formatter |-> Defaults,
            m_appenders |-> IF n = "root" THEN <<[NewStdout EXCEPT !.m_formatter = Defaults]>> ELSE <<>>]]
    /\ locked = [n \in LogNames |-> "nobody"]
    /\ reload = [at |-> "idle", name |-> "root", todo |-> {}, gone |-> {}, old |-> logs]
    /\ writer = [w \in Writers |-> [at |-> "idle", name |-> "root", level |-> DEBUG]]
    /\ time = 0 /\ lines = <<>> /\ reloads = 0
    /\ file = [n \in LogNames |-> {}]
    /\ died = "no"

Free(n) == locked[n] = "nobody"

\* external: time(0)
LogTick == /\ time < MaxTime /\ time' = time + 1
           /\ UNCHANGED <<logs, logger, locked, reload, writer, lines, file, died, reloads>>
-----------------------------------------------------------------------------
(* Logging.                                                                *)

\* log(): the level is tested before the lock is taken
LogTest(w, n, level) ==
    /\ writer[w].at = "idle" /\ Len(lines) < MaxLines
    /\ level >= logger[n].m_level
    /\ writer' = [writer EXCEPT ![w] = [at |-> "lock", name |-> n, level |-> level]]
    /\ UNCHANGED <<logs, logger, locked, reload, time, lines, file, died, reloads>>

\* under the lock: an empty logger hands the event to the root, which tests its own level
\* and takes its own lock inside
LogLock(w) ==
    LET n == writer[w].name
        toRoot == logger[n].m_appenders = <<>> /\ n # "root"
        dropped == toRoot /\ writer[w].level < logger["root"].m_level
    IN  /\ writer[w].at = "lock" /\ Free(n)
        /\ toRoot /\ ~dropped => Free("root")
        /\ locked' = IF dropped THEN locked
                     ELSE [m \in LogNames |->
                        IF m = n \/ (m = "root" /\ toRoot) THEN w ELSE locked[m]]
        /\ writer' = [writer EXCEPT ![w].at =
               IF dropped THEN "idle" ELSE IF toRoot THEN "root" ELSE "write"]
        /\ UNCHANGED <<logs, logger, reload, time, lines, file, died, reloads>>

\* FileLogAppender::log(): the file is opened, and emptied, with the first line of each
\* second; a line for a stream that was never opened is lost
FileLog(a, held, line) ==
    [appender |-> [a EXCEPT !.m_reopenTime = time, !.open = @ \/ a.m_reopenTime # time],
     holds    |-> IF a.m_reopenTime # time THEN {line}
                  ELSE IF a.open THEN held \cup {line} ELSE held]

IsFile(a) == a.type = "file"
FirstFile(as) == SelectInSeq(as, IsFile)

\* the appenders of the logger n write the line: what StdoutLogAppender::log prints is not
\* followed further
WriteAll(n, line) ==
    LET as == logger[n].m_appenders
        f  == FirstFile(as)
    IN  IF f = 0 THEN UNCHANGED <<logger, file>>
        ELSE LET result == FileLog(as[f], file[n], line) IN
             /\ logger' = [logger EXCEPT ![n].m_appenders[f] = result.appender]
             /\ file' = [file EXCEPT ![n] = result.holds]

\* the appenders of the logger, or of the root, write and the locks are released
LogWrite(w) ==
    /\ writer[w].at \in {"write", "root"}
    /\ lines' = Append(lines, time)
    /\ WriteAll(IF writer[w].at = "root" THEN "root" ELSE writer[w].name, Len(lines'))
    /\ locked' = [n \in LogNames |-> IF locked[n] = w THEN "nobody" ELSE locked[n]]
    /\ writer' = [writer EXCEPT ![w].at = "idle"]
    /\ UNCHANGED <<logs, reload, time, died, reloads>>
-----------------------------------------------------------------------------
(* The formatter.                                                          *)

WithItsFormatter(l, pattern) == [l EXCEPT !.m_formatter = pattern]   \* mutant of WithFormatter: no appender follows

\* Logger::setFormatter: appenders without a formatter of their own follow
WithFormatter(l, pattern) ==
    [l EXCEPT !.m_formatter = pattern,
              !.m_appenders = [i \in DOMAIN @ |->
                  IF @[i].m_hasFormatter THEN @[i] ELSE [@[i] EXCEPT !.m_formatter = pattern]]]

\* a program sets a pattern; one that does not parse changes nothing
SetFormatter(n, pattern) ==
    /\ Free(n) /\ pattern \notin BadPatterns
    /\ logger' = [logger EXCEPT ![n] = WithFormatter(@, pattern)]
    /\ UNCHANGED <<logs, locked, reload, writer, time, lines, file, died, reloads>>
-----------------------------------------------------------------------------
(* The configuration.                                                      *)

\* LogLevel::FromString: what it does not know is DEBUG
FromString(level) == IF level = "INFO" THEN INFO ELSE DEBUG

\* ConfigCast<std::string, std::set<LogDefine>>: an appender without a type or a file,
\* or of an unknown type, is dropped; the formatter is read for a file only, the level of an
\* appender never
Cast(node) ==
    LET known == SelectSeq(node.appenders, LAMBDA a : a.type \in {"file", "stdout"})
    IN  [level     |-> FromString(node.level),
         formatter |-> node.formatter,
         appenders |-> [i \in DOMAIN known |->
             [type |-> known[i].type, formatter |-> IF IsFile(known[i]) THEN known[i].formatter ELSE ""]]]

\* setValue() of "logs": the listener is called with the old and the new value
ReloadBegin(new) ==
    /\ reload.at = "idle" /\ reloads < MaxReloads /\ new # logs
    /\ reloads' = reloads + 1
    /\ logs' = new
    /\ reload' = [at |-> "next", name |-> "root", todo |-> {n \in LogNames : new[n] # NoDefine},
                  gone |-> {n \in LogNames : new[n] = NoDefine /\ logs[n] # NoDefine}, old |-> logs]
    /\ UNCHANGED <<logger, locked, writer, time, lines, file, died>>

\* a new or a changed definition: setLevel(), without the lock.  For one that is as before
\* no logger is looked up, and the null pointer is used
ReloadSet(n) ==
    /\ reload.at = "next" /\ n \in reload.todo
    /\ IF logs[n] = reload.old[n]
          THEN died' = "null" /\ UNCHANGED <<logger, reload>>
          ELSE /\ logger' = [logger EXCEPT ![n].m_level = logs[n].level]
               /\ reload' = [reload EXCEPT !.at = "format", !.name = n, !.todo = @ \ {n}]
               /\ UNCHANGED died
    /\ UNCHANGED <<logs, locked, writer, time, lines, file, reloads>>

\* setFormatter(), when the definition has a pattern that parses
ReloadFormat ==
    /\ reload.at = "format"
    /\ LET n == reload.name
           pattern == logs[n].formatter
       IN  IF pattern \in BadPatterns \cup {""} THEN UNCHANGED logger
           ELSE Free(n) /\ logger' = [logger EXCEPT ![n] = WithFormatter(@, pattern)]
    /\ reload' = [reload EXCEPT !.at = "clear"]
    /\ UNCHANGED <<logs, locked, writer, time, lines, file, died, reloads>>

\* clearAppenders(), without the lock: the appenders die under a thread that is among them
ClearAppenders(n) ==
    /\ died' = IF ~Free(n) /\ logger[n].m_appenders # <<>> THEN "race" ELSE died
    /\ logger' = [logger EXCEPT ![n].m_appenders = <<>>]

ReloadClear ==
    /\ reload.at = "clear"
    /\ ClearAppenders(reload.name)
    /\ reload' = [reload EXCEPT !.at = "add"]
    /\ UNCHANGED <<logs, locked, writer, time, lines, file, reloads>>

\* an appender of a definition, with its own formatter or its logger's; m_reopenTime is
\* not initialised
NewAppender(a, l, garbage) ==
    LET own == a.formatter \notin BadPatterns \cup {""}
    IN  [type |-> a.type, m_hasFormatter |-> own,
         m_formatter |-> IF own THEN a.formatter ELSE l.m_formatter,
         m_reopenTime |-> IF IsFile(a) THEN garbage ELSE 0, open |-> FALSE]

\* addAppender(), one at a time under the lock
ReloadAdd(garbage) ==
    LET n    == reload.name
        have == Len(logger[n].m_appenders)
        want == logs[n].appenders
    IN  /\ reload.at = "add" /\ have < Len(want) /\ Free(n)
        /\ logger' = [logger EXCEPT ![n].m_appenders =
               Append(@, NewAppender(want[have + 1], logger[n], garbage))]
        /\ UNCHANGED <<logs, locked, reload, writer, time, lines, file, died, reloads>>

ReloadNext ==
    /\ reload.at = "add" /\ Len(logger[reload.name].m_appenders) = Len(logs[reload.name].appenders)
    /\ reload' = [reload EXCEPT !.at = "next"]
    /\ UNCHANGED <<logs, logger, locked, writer, time, lines, file, died, reloads>>

\* the names that are no longer defined lose their appenders
ReloadRemove(n) ==
    /\ reload.at = "next" /\ reload.todo = {} /\ n \in reload.gone
    /\ ClearAppenders(n)
    /\ reload' = [reload EXCEPT !.gone = @ \ {n}]
    /\ UNCHANGED <<logs, locked, writer, time, lines, file, reloads>>

ReloadEnd ==
    /\ reload.at = "next" /\ reload.todo = {} /\ reload.gone = {}
    /\ reload' = [reload EXCEPT !.at = "idle", !.old = logs]
    /\ UNCHANGED <<logs, logger, locked, writer, time, lines, file, died, reloads>>

LogDefines(n) == {Cast(node) : node \in LogTexts[n]} \cup {NoDefine}

LogNext ==
    /\ died = "no"
    /\ \/ LogTick
       \/ \E w \in Writers :
             \/ \E n \in LogNames, level \in DEBUG .. INFO : LogTest(w, n, level)
             \/ LogLock(w) \/ LogWrite(w)
       \/ \E n \in Restyled : SetFormatter(n, "set")
       \/ \E n \in LogNames : ReloadSet(n) \/ ReloadRemove(n)
       \/ \E new \in [LogNames -> UNION {LogDefines(n) : n \in LogNames}] :
             (\A n \in LogNames : new[n] \in LogDefines(n)) /\ ReloadBegin(new)
       \/ ReloadFormat \/ ReloadClear \/ ReloadNext \/ ReloadEnd
       \/ \E garbage \in 0 .. MaxTime : ReloadAdd(garbage)

LogSpec == LogInit /\ [][LogNext]_logVars
-----------------------------------------------------------------------------
\* An appender without a formatter of its own formats as its logger does, whenever either
\* is set; and between reloads each defined logger has the level and the appenders of its
\* definition, with their own formatters where these parse, and one that is not defined
\* has none, so that the root writes for it.
LoggersAsDefined ==
    /\ \A n \in LogNames : \A i \in DOMAIN logger[n].m_appenders :
          LET a == logger[n].m_appenders[i] IN ~a.m_hasFormatter => a.m_formatter = logger[n].m_formatter
    /\ died = "no" /\ reload.at = "idle" => \A n \in LogNames :
          LET as == logger[n].m_appenders IN
          IF logs[n] = NoDefine THEN as = <<>> \/ (n = "root" /\ \A i \in DOMAIN as : ~IsFile(as[i]))
          ELSE /\ logger[n].m_level = logs[n].level
               /\ Len(as) = Len(logs[n].appenders)
               /\ \A i \in DOMAIN as :
                     LET own == logs[n].appenders[i].formatter IN
                     /\ as[i].type = logs[n].appenders[i].type
                     /\ as[i].m_hasFormatter = (own \notin BadPatterns \cup {""})
                     /\ as[i].m_hasFormatter => as[i].m_formatter = own

\* a line leaves its file only with the first line of a later second, or of a new appender
LinesStay ==
    \A n \in LogNames : \A i \in file[n] \ file'[n] :
       \/ lines[i] # time
       \/ \E k \in DOMAIN logger[n].m_appenders : ~logger[n].m_appenders[k].open

\* Through every reload, and with other threads logging all along: each step leaves the
\* loggers as defined, and loses no line from a file within its second but to a new appender.
LoggingKept == [][LoggersAsDefined' /\ LinesStay]_logVars
=============================================================================
