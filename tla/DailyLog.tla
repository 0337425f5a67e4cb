------------------------------- MODULE DailyLog -------------------------------
(***************************************************************************)
(* The server's log file: core::create_logger (src/core/logger.hpp) and the  *)
(* parts of spdlog it puts together: logger, base_sink, daily_file_sink and  *)
(* file_helper (contrib/spdlog).                                            *)
(*                                                                         *)
(* Threads log at any time.  A message is stamped when it is made and waits  *)
(* for the sink's mutex; between two steps time may pass.  A file is named   *)
(* by its date, a line is on disk or in the open file's buffer.  A second is *)
(* no more than a tick: two times less than a second apart are in one tick   *)
(* or in two that follow each other.                                        *)
(***************************************************************************)
EXTENDS Integers

CONSTANTS
  Thread,
  NoThread,     \* nobody holds the mutex
  Logged,       \* levels of the messages
  Faults,       \* what may fail: "open", "write", "flush"
  OpenTries,    \* open_tries_
  DayLen,       \* ticks of a day
  RotationAt,   \* the tick of a day at which the file is rotated
  MaxTime,      \* bound: the clock stops here
  MaxMsgs,      \* bound: messages of each thread
  MaxLag        \* bound: ticks a call may last

\* level::level_enum, those in use.
debug == 1
info == 2
err == 4
Level == {debug, info, err}

ASSUME DailyLogAssumption ==
  /\ Logged \subseteq Level
  /\ NoThread \notin Thread
  /\ OpenTries \in Nat \ {0}
  /\ DayLen \in Nat \ {0}
  /\ RotationAt \in 0 .. DayLen - 1
  /\ MaxTime \in Nat /\ MaxMsgs \in [Thread -> Nat] /\ MaxLag \in Nat

VARIABLES
  now,          \* log_clock
  status,       \* "creating", "up", "failed" (create_logger threw), "dead"
  level,        \* the logger's level_ and its flush_level_
  pc,           \* where each thread is: "idle", "lock", "open", "write", "report",
                \* "flush"
  msg,          \* the thread's message: its number, level and time
  mutex_,       \* the sink's mutex
  rotation_tp_,
  filename_,    \* the date in the file's name
  fd_,          \* "null", "open"
  tries,        \* in file_helper::open
  buffer,       \* lines written to the open file
  disk,         \* lines a file has for good
  errors,       \* lines for which the sink threw an exception
  lost,         \* history: lines in the buffer of a flush that failed
  last_report_time,  \* of err_handler_
  shown,        \* history: calls of err_handler_ that wrote to stderr
  dropped       \* history: calls of err_handler_ that did not

sink == <<mutex_, rotation_tp_, filename_, fd_, tries>>
lines == <<buffer, disk, errors, lost>>
reports == <<last_report_time, shown, dropped>>
vars == <<now, status, level, pc, msg, sink, lines, reports>>

\* get_logger_level: a name it does not know gives info.
get_logger_level(name) ==
  CASE name = "debug" -> debug
    [] name = "error" -> err
    [] OTHER -> info

Date(time) == time \div DayLen

\* MUTANT of next_rotation_tp_: two days on.
next_rotation_tp_twice(time) ==
  LET today == Date(time) * DayLen + RotationAt
  IN IF today > time THEN today ELSE today + 2 * DayLen

next_rotation_tp_(time) ==
  LET today == Date(time) * DayLen + RotationAt
  IN IF today > time THEN today ELSE today + DayLen

\* A line knows its thread and number, its time and its file.
Line(t) == [thread |-> t, n |-> msg[t].n, time |-> msg[t].time, file |-> filename_]

\* A call of err_handler_ for the message of t.
Call(t) == [thread |-> t, n |-> msg[t].n, at |-> now]

\* What last_report_time is before the first report: more than a second ago.
LongAgo == -2

\* The sink is created with the file of its date; it is not open yet.
Init ==
  /\ now \in 0 .. DayLen - 1
  /\ status = "creating"
  /\ level \in {get_logger_level(name) : name \in {"debug", "info", "error", "other"}}
  /\ pc = [t \in Thread |-> "idle"]
  /\ msg = [t \in Thread |-> [n |-> 0, level |-> info, time |-> 0]]
  /\ mutex_ = NoThread
  /\ rotation_tp_ = 0
  /\ filename_ = Date(now)
  /\ fd_ = "null"
  /\ tries = 0
  /\ buffer = {} /\ disk = {} /\ errors = {} /\ lost = {}
  /\ last_report_time = LongAgo /\ shown = {} /\ dropped = {}

-----------------------------------------------------------------------------
(* The file's buffer.                                                       *)

\* What fflush or fclose does, whose result nobody looks at.
Flushed ==
  /\ buffer' = {}
  /\ \/ disk' = disk \cup buffer /\ lost' = lost
     \/ "flush" \in Faults /\ disk' = disk /\ lost' = lost \cup buffer
  /\ UNCHANGED errors

-----------------------------------------------------------------------------
(* create_logger: the constructor of daily_file_sink.                       *)

CreateOpens ==
  /\ status = "creating"
  /\ fd_' = "open"
  /\ rotation_tp_' = next_rotation_tp_(now)
  /\ status' = "up"
  /\ UNCHANGED <<now, level, pc, msg, mutex_, filename_, tries, lines, reports>>

CreateFails ==
  /\ status = "creating"
  /\ "open" \in Faults
  /\ tries' = tries + 1
  /\ status' = IF tries' = OpenTries THEN "failed" ELSE status
  /\ UNCHANGED <<now, level, pc, msg, mutex_, rotation_tp_, filename_, fd_, lines, reports>>

-----------------------------------------------------------------------------
(* logger::log on thread t.                                                 *)

\* A message below the logger's level is not made.
Log(t, lvl) ==
  /\ status = "up"
  /\ pc[t] = "idle"
  /\ msg[t].n < MaxMsgs[t]
  /\ lvl >= level
  /\ msg' = [msg EXCEPT ![t] = [n |-> @.n + 1, level |-> lvl, time |-> now]]
  /\ pc' = [pc EXCEPT ![t] = "lock"]
  /\ UNCHANGED <<now, status, level, sink, lines, reports>>

\* base_sink::log, daily_file_sink::sink_it_: no rotation.
Sink(t) ==
  /\ status = "up"
  /\ pc[t] = "lock"
  /\ mutex_ = NoThread
  /\ msg[t].time < rotation_tp_
  /\ mutex_' = t
  /\ pc' = [pc EXCEPT ![t] = "write"]
  /\ UNCHANGED <<now, status, level, msg, rotation_tp_, filename_, fd_, tries, lines, reports>>

\* Rotation: the file is closed and another one is named by the message's date.
Rotate(t) ==
  /\ status = "up"
  /\ pc[t] = "lock"
  /\ mutex_ = NoThread
  /\ msg[t].time >= rotation_tp_
  /\ mutex_' = t
  /\ Flushed
  /\ fd_' = "null"
  /\ filename_' = Date(msg[t].time)
  /\ tries' = 0
  /\ pc' = [pc EXCEPT ![t] = "open"]
  /\ UNCHANGED <<now, status, level, msg, rotation_tp_, reports>>

Opens(t) ==
  /\ status = "up"
  /\ pc[t] = "open"
  /\ fd_' = "open"
  /\ rotation_tp_' = next_rotation_tp_(now)
  /\ pc' = [pc EXCEPT ![t] = "write"]
  /\ UNCHANGED <<now, status, level, msg, mutex_, filename_, tries, lines, reports>>

\* An exception in the sink: the mutex is released and the logger calls its
\* error handler.
SinkThrows(t) ==
  /\ errors' = errors \cup {Line(t)}
  /\ mutex_' = NoThread
  /\ pc' = [pc EXCEPT ![t] = "report"]

\* logger::err_handler_, under a mutex of its own.
Report(t) ==
  /\ status = "up"
  /\ pc[t] = "report"
  /\ last_report_time' = now
  /\ shown' = shown \cup {Call(t)}
  /\ pc' = [pc EXCEPT ![t] = "flush"]
  /\ UNCHANGED <<now, status, level, msg, sink, lines, dropped>>

\* MUTANT of ReportNot: an error that is not shown counts as the last one.
ReportNotMoves(t) ==
  /\ status = "up"
  /\ pc[t] = "report"
  /\ now - last_report_time <= 1
  /\ last_report_time' = now
  /\ dropped' = dropped \cup {Call(t)}
  /\ pc' = [pc EXCEPT ![t] = "flush"]
  /\ UNCHANGED <<now, status, level, msg, sink, lines, shown>>

\* It returns without a word less than a second after its last report.
ReportNot(t) ==
  /\ status = "up"
  /\ pc[t] = "report"
  /\ now - last_report_time <= 1
  /\ dropped' = dropped \cup {Call(t)}
  /\ pc' = [pc EXCEPT ![t] = "flush"]
  /\ UNCHANGED <<now, status, level, msg, sink, lines, last_report_time, shown>>

\* MUTANT of OpenFails: one try more than open_tries_.
OpenFailsMore(t) ==
  /\ status = "up"
  /\ pc[t] = "open"
  /\ "open" \in Faults
  /\ tries' = tries + 1
  /\ IF tries' > OpenTries THEN SinkThrows(t) ELSE UNCHANGED <<errors, mutex_, pc>>
  /\ UNCHANGED <<now, status, level, msg, rotation_tp_, filename_, fd_, buffer, disk, lost, reports>>

\* MUTANT of OpenFails: the tries are not counted.
OpenFailsForEver(t) ==
  /\ status = "up"
  /\ pc[t] = "open"
  /\ "open" \in Faults
  /\ tries' = 1 - tries
  /\ UNCHANGED <<now, status, level, pc, msg, mutex_, rotation_tp_, filename_, fd_, lines, reports>>

\* MUTANT of OpenFails: the time of rotation moves although there is no file.
OpenFailsMoves(t) ==
  /\ status = "up"
  /\ pc[t] = "open"
  /\ "open" \in Faults
  /\ tries' = tries + 1
  /\ rotation_tp_' = next_rotation_tp_(now)
  /\ IF tries' = OpenTries THEN SinkThrows(t) ELSE UNCHANGED <<errors, mutex_, pc>>
  /\ UNCHANGED <<now, status, level, msg, filename_, fd_, buffer, disk, lost, reports>>

\* A try fails; after the last one open() throws.  The time of rotation stays.
OpenFails(t) ==
  /\ status = "up"
  /\ pc[t] = "open"
  /\ "open" \in Faults
  /\ tries' = tries + 1
  /\ IF tries' = OpenTries THEN SinkThrows(t) ELSE UNCHANGED <<errors, mutex_, pc>>
  /\ UNCHANGED <<now, status, level, msg, rotation_tp_, filename_, fd_, buffer, disk, lost, reports>>

\* file_helper::write; a null handle ends the process.
Write(t) ==
  /\ status = "up"
  /\ pc[t] = "write"
  /\ fd_ = "open"
  /\ buffer' = buffer \cup {Line(t)}
  /\ mutex_' = NoThread
  /\ pc' = [pc EXCEPT ![t] = "flush"]
  /\ UNCHANGED <<now, status, level, msg, rotation_tp_, filename_, fd_, tries, disk,
                 errors, lost, reports>>

WriteNull(t) ==
  /\ status = "up"
  /\ pc[t] = "write"
  /\ fd_ = "null"
  /\ status' = "dead"
  /\ buffer' = {}
  /\ UNCHANGED <<now, level, pc, msg, sink, disk, errors, lost, reports>>

WriteFails(t) ==
  /\ status = "up"
  /\ pc[t] = "write"
  /\ fd_ = "open"
  /\ "write" \in Faults
  /\ SinkThrows(t)
  /\ UNCHANGED <<now, status, level, msg, rotation_tp_, filename_, fd_, tries, buffer,
                 disk, lost, reports>>

\* MUTANT of should_flush_: only above the level.
should_flush_above(lvl) == lvl > level

should_flush_(lvl) == lvl >= level

\* logger::flush_, which takes the mutex again, and the return.
Flush(t) ==
  /\ status = "up"
  /\ pc[t] = "flush"
  /\ pc' = [pc EXCEPT ![t] = "idle"]
  /\ IF should_flush_(msg[t].level) THEN mutex_ = NoThread /\ Flushed
                                    ELSE UNCHANGED lines
  /\ UNCHANGED <<now, status, level, msg, sink, reports>>

-----------------------------------------------------------------------------
(* The environment.                                                         *)

\* The process is killed: what is in the buffer is gone.
Kill ==
  /\ status = "up"
  /\ status' = "dead"
  /\ buffer' = {}
  /\ UNCHANGED <<now, level, pc, msg, sink, disk, errors, lost, reports>>

\* The clock, which nobody reads once the process has ended.  The constructor
\* does not last past the first tick of the next day.
Tick ==
  /\ status \in {"creating", "up"}
  /\ now < MaxTime
  /\ status = "creating" => now < DayLen
  /\ \A t \in Thread : pc[t] # "idle" => now - msg[t].time < MaxLag
  /\ now' = now + 1
  /\ UNCHANGED <<status, level, pc, msg, sink, lines, reports>>

Step(t) ==
  \/ Sink(t) \/ Rotate(t)
  \/ Opens(t) \/ OpenFails(t)
  \/ Write(t) \/ WriteNull(t) \/ WriteFails(t)
  \/ Report(t) \/ ReportNot(t)
  \/ Flush(t)

Next ==
  \/ CreateOpens \/ CreateFails
  \/ \E t \in Thread : \E lvl \in Logged : Log(t, lvl)
  \/ \E t \in Thread : Step(t)
  \/ Kill
  \/ Tick

Spec == Init /\ [][Next]_vars

\* Threads are scheduled.
FairSpec == Spec /\ \A t \in Thread : WF_vars(Step(t))

-----------------------------------------------------------------------------
(* Properties.                                                              *)

LineType == [thread : Thread, n : Nat, time : Nat, file : Nat]
CallType == [thread : Thread, n : Nat, at : Nat]

\* The type invariant.
DailyTypeOK ==
  /\ now \in Nat
  /\ status \in {"creating", "up", "failed", "dead"}
  /\ level \in Level
  /\ pc \in [Thread -> {"idle", "lock", "open", "write", "report", "flush"}]
  /\ msg \in [Thread -> [n : Nat, level : Level, time : Nat]]
  /\ mutex_ \in Thread \cup {NoThread}
  /\ rotation_tp_ \in Nat
  /\ filename_ \in Nat
  /\ fd_ \in {"null", "open"}
  /\ tries \in 0 .. OpenTries
  /\ \A set \in {buffer, disk, errors, lost} : set \subseteq LineType
  /\ last_report_time \in Nat \cup {LongAgo}
  /\ shown \subseteq CallType /\ dropped \subseteq CallType

\* A line of t's n-th message.
Of(set, t, n) == \E l \in set : l.thread = t /\ l.n = n

\* The error of t's n-th message was shown, or another one was at most a second
\* before: err_handler_ shows one error in a second and drops the others.
Noted(t, n) ==
  \/ Of(shown, t, n)
  \/ \E d \in dropped : /\ d.thread = t /\ d.n = n
                        /\ \E s \in shown : s.at <= d.at /\ d.at <= s.at + 1

\* A call that returned left its line on disk, where the end of the process
\* cannot reach it; or stderr tells of the loss, by its own error or by one of
\* the second before; or it was in a buffer the disk did not take, of which
\* nobody is told.  The flush after the line finds it, though the mutex was
\* free in between and another thread may have closed the file.
ReturnedIsDurable ==
  \A t \in Thread : \A n \in 1 .. msg[t].n :
    (n < msg[t].n \/ pc[t] = "idle") =>
      Of(disk, t, n) \/ Noted(t, n) \/ Of(lost, t, n)

\* A line is in the file of its date or of the day before or after, if no call
\* lasts longer than from midnight to the rotation (23 hours 59 in the code).
FileNearDate ==
  \A l \in disk \cup buffer :
    l.file <= Date(l.time) + 1 /\ Date(l.time) <= l.file + 1

\* Only one order of events writes to a null handle: the rotation of a later
\* message failed before this one, stamped ahead of the rotation, had its turn.
\* A message stamped after the rotation tries the file again.
NullOnlyOvertaken ==
  \A t \in Thread : status = "up" /\ pc[t] = "write" /\ fd_ = "null" =>
    /\ msg[t].time < rotation_tp_
    /\ \E l \in errors : l.time >= rotation_tp_ /\ l.file = filename_

\* A call returns, however often the file cannot be opened.
LogReturns == \A t \in Thread : []<>(pc[t] = "idle" \/ status = "dead")
=============================================================================
