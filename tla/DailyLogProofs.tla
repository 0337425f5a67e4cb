---------------------------- MODULE DailyLogProofs ----------------------------
(***************************************************************************)
(* Proofs about DailyLog, for any number of threads and messages and any     *)
(* time of rotation.                                                        *)
(***************************************************************************)
EXTENDS DailyLog, TLAPS

\* What the proof needs of the variables' types.
LogTypes ==
  /\ now \in Nat
  /\ pc \in [Thread -> {"idle", "lock", "open", "write", "report", "flush"}]
  /\ msg \in [Thread -> [n : Nat, level : Level, time : Nat]]

\* A message in progress passed the logger's level, hence that of the flush.
Passed == \A t \in Thread : pc[t] # "idle" => msg[t].level >= level

\* The time of the last report is that of an error that was shown.
LastShown ==
  /\ last_report_time \in Nat \cup {LongAgo} /\ last_report_time <= now
  /\ last_report_time # LongAgo => \E s \in shown : s.at = last_report_time

\* Noted, of any two sets of calls.
NotedIn(sh, dr, t, n) ==
  \/ Of(sh, t, n)
  \/ \E d \in dr : /\ d.thread = t /\ d.n = n
                   /\ \E s \in sh : s.at <= d.at /\ d.at <= s.at + 1

\* A line that waits for its flush is in the buffer unless someone else's flush
\* or rotation took it, or it has gone through the error handler.
Waiting ==
  \A t \in Thread : status # "dead" /\ pc[t] = "flush" =>
    \/ Of(buffer, t, msg[t].n)
    \/ Of(disk, t, msg[t].n)
    \/ NotedIn(shown, dropped, t, msg[t].n)
    \/ Of(lost, t, msg[t].n)

LogInv == LogTypes /\ Passed /\ LastShown /\ Waiting /\ ReturnedIsDurable

\* NotedIn says of the variables what Noted says, before and after a step.
LEMMA NotedSame ==
  ASSUME NEW t, NEW n
  PROVE  /\ Noted(t, n) <=> NotedIn(shown, dropped, t, n)
         /\ Noted(t, n)' <=> NotedIn(shown', dropped', t, n)
  BY DEF Noted, NotedIn, Of

\* What is noted stays noted when the sets grow.
LEMMA NotedGrows ==
  ASSUME NEW sh, NEW dr, NEW sh1, NEW dr1, sh \subseteq sh1, dr \subseteq dr1,
         NEW t, NEW n, NotedIn(sh, dr, t, n)
  PROVE  NotedIn(sh1, dr1, t, n)
<1>1. CASE Of(sh, t, n)
  BY <1>1 DEF NotedIn, Of
<1>2. ASSUME NEW d \in dr, d.thread = t, d.n = n,
             \E s \in sh : s.at <= d.at /\ d.at <= s.at + 1
      PROVE  NotedIn(sh1, dr1, t, n)
  BY <1>2 DEF NotedIn
<1> QED
  BY <1>1, <1>2 DEF NotedIn

\* A set of lines that grows keeps its lines.
LEMMA OfGrows ==
  ASSUME NEW S, NEW R, S \subseteq R, NEW t, NEW n, Of(S, t, n)
  PROVE  Of(R, t, n)
  BY DEF Of

\* The line of a thread's message is the one that Of looks for.
LEMMA OfLine ==
  ASSUME NEW S, NEW t
  PROVE  Of(S \cup {Line(t)}, t, msg[t].n)
<1>1. Line(t).thread = t /\ Line(t).n = msg[t].n
  BY DEF Line
<1>2. Line(t) \in S \cup {Line(t)}
  OBVIOUS
<1> QED
  BY <1>1, <1>2, Zenon DEF Of

\* The initial states satisfy the invariant: no message was made.
LEMMA LogInitInv == Init => LogInv
<1> SUFFICES ASSUME Init PROVE LogInv
  OBVIOUS
<1> USE DailyLogAssumption DEF Init
<1>1. now \in Nat
  OBVIOUS
<1>2. info \in Level
  BY DEF info, Level
<1>3. LogTypes
  BY <1>1, <1>2 DEF LogTypes
<1>4. Passed /\ LastShown /\ Waiting
  BY <1>1 DEF Passed, LastShown, LongAgo, Waiting
<1>5. ReturnedIsDurable
  BY DEF ReturnedIsDurable
<1> QED
  BY <1>3, <1>4, <1>5 DEF LogInv

\* A flush or a close moves the buffer to the disk, or loses it.
LEMMA FlushedMoves ==
  ASSUME Flushed
  PROVE  /\ errors' = errors
         /\ \/ disk' = disk \cup buffer /\ lost' = lost
            \/ disk' = disk /\ lost' = lost \cup buffer
  BY DEF Flushed

\* Steps that leave the messages where they are, or are not the return of a
\* call, and lose no line from disk or errors keep what is durable.
LEMMA DurableStays ==
  ASSUME ReturnedIsDurable, LogTypes, msg' = msg,
         disk \subseteq disk', shown \subseteq shown', dropped \subseteq dropped',
         lost \subseteq lost',
         \A t \in Thread : pc'[t] = "idle" => pc[t] = "idle"
  PROVE  ReturnedIsDurable'
<1> SUFFICES ASSUME NEW t \in Thread, NEW n \in 1 .. msg[t].n,
                    n < msg[t].n \/ pc'[t] = "idle"
             PROVE  Of(disk', t, n) \/ NotedIn(shown', dropped', t, n) \/ Of(lost', t, n)
  BY NotedSame DEF ReturnedIsDurable, Of
<1>1. n < msg[t].n \/ pc[t] = "idle"
  OBVIOUS
<1>2. Of(disk, t, n) \/ NotedIn(shown, dropped, t, n) \/ Of(lost, t, n)
  BY <1>1, NotedSame DEF ReturnedIsDurable
<1> QED
  BY <1>2, NotedGrows DEF Of

\* The same for the lines that wait for their flush.
LEMMA WaitingStays ==
  ASSUME Waiting, LogTypes, status # "dead",
         disk \subseteq disk', shown \subseteq shown', dropped \subseteq dropped',
         lost \subseteq lost',
         buffer \subseteq buffer' \/ buffer \subseteq disk' \cup lost',
         NEW t \in Thread, pc[t] = "flush", msg'[t] = msg[t]
  PROVE  \/ Of(buffer', t, msg'[t].n)
         \/ Of(disk', t, msg'[t].n)
         \/ NotedIn(shown', dropped', t, msg'[t].n)
         \/ Of(lost', t, msg'[t].n)
<1>1. \/ Of(buffer, t, msg[t].n)
      \/ Of(disk, t, msg[t].n)
      \/ NotedIn(shown, dropped, t, msg[t].n)
      \/ Of(lost, t, msg[t].n)
  BY DEF Waiting
<1> QED
  BY <1>1, NotedGrows DEF Of

\* Every step keeps the invariant.
LEMMA LogStepInv ==
  ASSUME LogInv, [Next]_vars
  PROVE  LogInv'
<1> USE DailyLogAssumption
<1>0. LogTypes /\ Passed /\ LastShown /\ Waiting /\ ReturnedIsDurable
  BY DEF LogInv
<1>1. CASE UNCHANGED vars
  BY <1>0, <1>1 DEF LogInv, LogTypes, Passed, LastShown, Waiting, ReturnedIsDurable,
    Noted, NotedIn, Of, vars, sink, lines, reports
<1>2. CASE CreateOpens \/ CreateFails \/ Tick
  <2>1. /\ UNCHANGED <<pc, msg, level, buffer, disk, lost, last_report_time, shown, dropped>>
        /\ now' \in Nat /\ now <= now'
    BY <1>0, <1>2 DEF CreateOpens, CreateFails, Tick, sink, lines, reports, LogTypes
  <2>2. status # "dead" \/ status' = "dead"
    BY <1>2 DEF CreateOpens, CreateFails, Tick
  <2>3. LogTypes' /\ Passed' /\ LastShown'
    BY <1>0, <2>1 DEF LogTypes, Passed, LastShown, LongAgo
  <2>4. Waiting'
    BY <1>0, <2>1, <2>2 DEF Waiting, Of, NotedIn
  <2>5. ReturnedIsDurable'
    BY <1>0, <2>1, DurableStays
  <2> QED
    BY <2>3, <2>4, <2>5 DEF LogInv
<1>3. CASE Kill
  <2>1. UNCHANGED <<now, pc, msg, level, disk, lost, reports>> /\ status' = "dead"
    BY <1>3 DEF Kill
  <2>2. LogTypes' /\ Passed' /\ LastShown' /\ Waiting'
    BY <1>0, <2>1 DEF LogTypes, Passed, LastShown, Waiting, reports
  <2>3. ReturnedIsDurable'
    BY <1>0, <2>1, DurableStays DEF reports
  <2> QED
    BY <2>2, <2>3 DEF LogInv
<1>4. ASSUME NEW t \in Thread, NEW lvl \in Logged, Log(t, lvl)
      PROVE  LogInv'
  <2> USE <1>4 DEF Log
  <2>1. lvl \in Nat /\ lvl \in Level
    BY DEF Level, debug, info, err
  <2>2. /\ msg'[t] = [n |-> msg[t].n + 1, level |-> lvl, time |-> now]
        /\ pc'[t] = "lock"
        /\ \A s \in Thread \ {t} : msg'[s] = msg[s] /\ pc'[s] = pc[s]
        /\ UNCHANGED <<now, status, level, buffer, disk, lost, reports>>
        /\ UNCHANGED <<last_report_time, shown, dropped>>
    BY <1>0 DEF LogTypes, lines, reports
  <2>3. LogTypes'
    <3>1. msg' \in [Thread -> [n : Nat, level : Level, time : Nat]]
      BY <1>0, <2>1 DEF LogTypes
    <3>2. pc' \in [Thread -> {"idle", "lock", "open", "write", "report", "flush"}]
      BY <1>0 DEF LogTypes
    <3> QED
      BY <1>0, <2>2, <3>1, <3>2 DEF LogTypes
  <2>4. Passed' /\ LastShown'
    BY <1>0, <2>2 DEF Passed, LastShown
  <2>5. Waiting'
    BY <1>0, <2>2 DEF Waiting, Of, NotedIn
  <2>6. ReturnedIsDurable'
    <3> SUFFICES ASSUME NEW s \in Thread, NEW k \in 1 .. msg'[s].n,
                        k < msg'[s].n \/ pc'[s] = "idle"
                 PROVE  Of(disk, s, k) \/ Noted(s, k) \/ Of(lost, s, k)
      BY <2>2 DEF ReturnedIsDurable, Noted, Of
    <3>1. CASE s = t
      <4>1. msg[t].n \in Nat
        BY <1>0 DEF LogTypes
      <4>2. k \in 1 .. msg[t].n /\ pc[t] = "idle"
        BY <2>2, <3>1, <4>1
      <4> QED
        BY <1>0, <3>1, <4>2 DEF ReturnedIsDurable
    <3>2. CASE s # t
      <4>1. k \in 1 .. msg[s].n /\ (k < msg[s].n \/ pc[s] = "idle")
        BY <2>2, <3>2
      <4> QED
        BY <1>0, <4>1 DEF ReturnedIsDurable
    <3> QED
      BY <3>1, <3>2
  <2> QED
    BY <2>3, <2>4, <2>5, <2>6 DEF LogInv
<1>5. ASSUME NEW t \in Thread, Sink(t) \/ Rotate(t) \/ Opens(t)
      PROVE  LogInv'
  <2>1. /\ \E p \in {"write", "open"} : pc' = [pc EXCEPT ![t] = p]
        /\ pc[t] # "idle"
        /\ UNCHANGED <<now, status, level, msg>>
        /\ UNCHANGED <<last_report_time, shown, dropped>>
        /\ disk \subseteq disk' /\ lost \subseteq lost'
        /\ buffer \subseteq buffer' \/ buffer \subseteq disk' \cup lost'
    BY <1>5, FlushedMoves DEF Sink, Rotate, Opens, lines, reports
  <2>2. LogTypes' /\ Passed' /\ LastShown'
    BY <1>0, <2>1 DEF LogTypes, Passed, LastShown
  <2>3. ASSUME NEW s \in Thread, pc'[s] \in {"flush", "idle"}
        PROVE  pc[s] = pc'[s]
    BY <1>0, <2>1, <2>3 DEF LogTypes
  <2>4. Waiting'
    <3> SUFFICES ASSUME NEW s \in Thread, status # "dead", pc'[s] = "flush"
                 PROVE  \/ Of(buffer', s, msg'[s].n)
                        \/ Of(disk', s, msg'[s].n)
                        \/ NotedIn(shown', dropped', s, msg'[s].n)
                        \/ Of(lost', s, msg'[s].n)
      BY <2>1 DEF Waiting
    <3> QED
      BY <1>0, <2>1, <2>3, WaitingStays
  <2>5. ReturnedIsDurable'
    BY <1>0, <2>1, <2>3, DurableStays
  <2> QED
    BY <2>2, <2>4, <2>5 DEF LogInv
<1>6. ASSUME NEW t \in Thread, OpenFails(t), tries' # OpenTries
      PROVE  LogInv'
  <2>1. UNCHANGED <<now, status, level, pc, msg, lines, reports>>
    BY <1>6 DEF OpenFails, lines
  <2> QED
    BY <1>0, <2>1 DEF LogInv, LogTypes, Passed, LastShown, Waiting, ReturnedIsDurable,
      Noted, NotedIn, Of, lines, reports
<1>7. ASSUME NEW t \in Thread, WriteFails(t) \/ (OpenFails(t) /\ tries' = OpenTries)
      PROVE  LogInv'
  <2>1. /\ pc' = [pc EXCEPT ![t] = "report"]
        /\ pc[t] \in {"write", "open"}
        /\ UNCHANGED <<now, status, level, msg, buffer, disk, lost>>
        /\ UNCHANGED <<last_report_time, shown, dropped>>
    BY <1>7 DEF WriteFails, OpenFails, SinkThrows, reports
  <2>2. LogTypes' /\ Passed' /\ LastShown'
    BY <1>0, <2>1 DEF LogTypes, Passed, LastShown
  <2>3. ASSUME NEW s \in Thread, pc'[s] \in {"flush", "idle"}
        PROVE  pc[s] = pc'[s]
    BY <1>0, <2>1, <2>3 DEF LogTypes
  <2>4. Waiting'
    BY <1>0, <2>1, <2>3 DEF Waiting, Of, NotedIn
  <2>5. ReturnedIsDurable'
    BY <1>0, <2>1, <2>3, DurableStays
  <2> QED
    BY <2>2, <2>4, <2>5 DEF LogInv
<1>10. ASSUME NEW t \in Thread, Write(t) \/ Report(t) \/ ReportNot(t)
       PROVE  LogInv'
  <2>1. /\ pc' = [pc EXCEPT ![t] = "flush"]
        /\ pc[t] \in {"write", "report"}
        /\ UNCHANGED <<now, status, level, msg, disk, lost>>
        /\ \/ /\ buffer' = buffer \cup {Line(t)}
              /\ UNCHANGED <<last_report_time, shown, dropped>>
           \/ /\ last_report_time' = now /\ shown' = shown \cup {Call(t)}
              /\ UNCHANGED <<buffer, dropped>>
           \/ /\ now - last_report_time <= 1 /\ dropped' = dropped \cup {Call(t)}
              /\ UNCHANGED <<buffer, last_report_time, shown>>
    BY <1>10 DEF Write, Report, ReportNot, lines, reports
  <2>2. LogTypes' /\ Passed'
    BY <1>0, <2>1 DEF LogTypes, Passed
  <2>3. Call(t).thread = t /\ Call(t).n = msg[t].n /\ Call(t).at = now /\ now \in Nat
    BY <1>0 DEF Call, LogTypes
  <2>4. LastShown'
    BY <1>0, <2>1, <2>3 DEF LastShown
  <2>5. Of(buffer', t, msg[t].n) \/ NotedIn(shown', dropped', t, msg[t].n)
    <3>1. CASE buffer' = buffer \cup {Line(t)}
      BY <3>1, OfLine
    <3>2. CASE shown' = shown \cup {Call(t)}
      BY <2>3, <3>2, Zenon DEF NotedIn, Of
    <3>3. CASE now - last_report_time <= 1 /\ dropped' = dropped \cup {Call(t)} /\ shown' = shown
      <4>1. last_report_time # LongAgo /\ last_report_time \in Nat /\ last_report_time <= now
        BY <1>0, <2>3, <3>3 DEF LastShown, LongAgo
      <4>2. PICK s \in shown' : s.at = last_report_time
        BY <1>0, <3>3, <4>1 DEF LastShown
      <4>3. s.at <= Call(t).at /\ Call(t).at <= s.at + 1
        BY <2>3, <3>3, <4>1, <4>2
      <4> QED
        BY <2>3, <3>3, <4>3, Zenon DEF NotedIn
    <3> QED
      BY <2>1, <3>1, <3>2, <3>3
  <2>6. Waiting'
    <3> SUFFICES ASSUME NEW s \in Thread, status # "dead", pc'[s] = "flush"
                 PROVE  \/ Of(buffer', s, msg'[s].n)
                        \/ Of(disk', s, msg'[s].n)
                        \/ NotedIn(shown', dropped', s, msg'[s].n)
                        \/ Of(lost', s, msg'[s].n)
      BY <2>1 DEF Waiting
    <3>1. CASE s = t
      BY <2>1, <2>5, <3>1
    <3>2. CASE s # t
      <4>1. pc[s] = "flush"
        BY <1>0, <2>1, <3>2 DEF LogTypes
      <4> QED
        BY <1>0, <2>1, <4>1, WaitingStays
    <3> QED
      BY <3>1, <3>2
  <2>7. ReturnedIsDurable'
    <3>1. \A s \in Thread : pc'[s] = "idle" => pc[s] = "idle"
      BY <1>0, <2>1 DEF LogTypes
    <3> QED
      BY <1>0, <2>1, <3>1, DurableStays
  <2> QED
    BY <2>2, <2>4, <2>6, <2>7 DEF LogInv
<1>8. ASSUME NEW t \in Thread, WriteNull(t)
      PROVE  LogInv'
  <2>1. UNCHANGED <<now, pc, msg, level, disk, lost, reports>> /\ status' = "dead"
    BY <1>8 DEF WriteNull
  <2>2. LogTypes' /\ Passed' /\ LastShown' /\ Waiting'
    BY <1>0, <2>1 DEF LogTypes, Passed, LastShown, Waiting, reports
  <2>3. ReturnedIsDurable'
    BY <1>0, <2>1, DurableStays DEF reports
  <2> QED
    BY <2>2, <2>3 DEF LogInv
<1>9. ASSUME NEW t \in Thread, Flush(t)
      PROVE  LogInv'
  <2>1. /\ pc' = [pc EXCEPT ![t] = "idle"]
        /\ pc[t] = "flush" /\ status # "dead"
        /\ UNCHANGED <<now, status, level, msg>>
        /\ \/ disk' = disk \cup buffer /\ lost' = lost
           \/ disk' = disk /\ lost' = lost \cup buffer
        /\ UNCHANGED <<last_report_time, shown, dropped>>
    <3>1. should_flush_(msg[t].level)
      BY <1>0, <1>9 DEF Flush, Passed, should_flush_
    <3> QED
      BY <1>9, <3>1, FlushedMoves DEF Flush, reports
  <2>2. LogTypes' /\ Passed' /\ LastShown'
    BY <1>0, <2>1 DEF LogTypes, Passed, LastShown
  <2>3. Waiting'
    <3> SUFFICES ASSUME NEW s \in Thread, status # "dead", pc'[s] = "flush"
                 PROVE  \/ Of(buffer', s, msg'[s].n)
                        \/ Of(disk', s, msg'[s].n)
                        \/ NotedIn(shown', dropped', s, msg'[s].n)
                        \/ Of(lost', s, msg'[s].n)
      BY <2>1 DEF Waiting
    <3>1. pc[s] = "flush"
      BY <1>0, <2>1 DEF LogTypes
    <3> QED
      BY <1>0, <2>1, <3>1, WaitingStays
  <2>4. ReturnedIsDurable'
    <3> SUFFICES ASSUME NEW s \in Thread, NEW k \in 1 .. msg[s].n,
                        k < msg[s].n \/ pc'[s] = "idle"
                 PROVE  Of(disk', s, k) \/ NotedIn(shown', dropped', s, k) \/ Of(lost', s, k)
      BY <2>1, NotedSame DEF ReturnedIsDurable
    <3>1. CASE k < msg[s].n \/ pc[s] = "idle"
      <4>1. Of(disk, s, k) \/ NotedIn(shown, dropped, s, k) \/ Of(lost, s, k)
        BY <1>0, <3>1, NotedSame DEF ReturnedIsDurable
      <4> QED
        BY <2>1, <4>1 DEF Of
    <3>2. CASE k = msg[s].n /\ s = t
      <4>1. \/ Of(buffer, t, k) \/ Of(disk, t, k)
            \/ NotedIn(shown, dropped, t, k) \/ Of(lost, t, k)
        BY <1>0, <2>1, <3>2 DEF Waiting
      <4> QED
        BY <2>1, <3>2, <4>1 DEF Of
    <3>3. msg[s].n \in Nat
      BY <1>0 DEF LogTypes
    <3>4. s # t => pc'[s] = pc[s]
      BY <1>0, <2>1 DEF LogTypes
    <3> QED
      BY <3>1, <3>2, <3>3, <3>4
  <2> QED
    BY <2>2, <2>3, <2>4 DEF LogInv
<1> QED
  BY <1>1, <1>2, <1>3, <1>4, <1>5, <1>6, <1>7, <1>8, <1>9, <1>10 DEF Next, Step

\* A call to the log leaves its line on disk, or stderr tells of its error or of
\* one in the second before (err_handler_ shows one in a second), or it met a
\* disk that did not take the buffer: logger::log_it_ flushes after every line
\* that passed the level, which is the level of the flush.
THEOREM LoggedIsDurable == Spec => []ReturnedIsDurable
<1>1. Init => LogInv
  BY LogInitInv
<1>2. LogInv /\ [Next]_vars => LogInv'
  BY LogStepInv
<1>3. LogInv => ReturnedIsDurable
  BY DEF LogInv
<1> QED
  BY <1>1, <1>2, <1>3, PTL DEF Spec

-----------------------------------------------------------------------------
(* The null handle.                                                         *)

\* The thread that opens or writes has the mutex.
Exclusive == \A t \in Thread : pc[t] \in {"open", "write"} => mutex_ = t

\* A rotation is due at the message that opens the file; the writer's message
\* is ahead of the next one.
Ahead ==
  \A t \in Thread :
    /\ pc[t] = "open"  => /\ fd_ = "null"
                          /\ msg[t].time >= rotation_tp_
    /\ pc[t] = "write" => msg[t].time < rotation_tp_

\* Nothing logs before the file was open for the first time.
NotBefore == status = "creating" => \A t \in Thread : pc[t] = "idle"

\* Without a file, and nobody opening one, the sink threw at a rotation.
Reported ==
  status = "up" /\ fd_ = "null" /\ (\A t \in Thread : pc[t] # "open") =>
    \E l \in errors : l.time >= rotation_tp_ /\ l.file = filename_

NullTypes ==
  /\ now \in Nat
  /\ rotation_tp_ \in Nat
  /\ pc \in [Thread -> {"idle", "lock", "open", "write", "report", "flush"}]
  /\ msg \in [Thread -> [n : Nat, level : Level, time : Nat]]
  /\ \A t \in Thread : msg[t].time <= now

NullInv == NullTypes /\ Exclusive /\ Ahead /\ NotBefore /\ Reported

\* The next rotation is in the future.
LEMMA RotationAhead ==
  ASSUME NEW time \in Nat
  PROVE  next_rotation_tp_(time) \in Nat /\ next_rotation_tp_(time) > time
<1> USE DailyLogAssumption
<1> DEFINE d == time \div DayLen
           today == d * DayLen + RotationAt
<1>1. time = d * DayLen + (time % DayLen) /\ time % DayLen \in 0 .. DayLen - 1 /\ d \in Nat
  BY Z3
<1>2. d * DayLen \in Nat
  BY <1>1
<1> HIDE DEF d
<1>3. today \in Nat /\ time < today + DayLen
  BY <1>1, <1>2
<1>4. next_rotation_tp_(time) = IF today > time THEN today ELSE today + DayLen
  BY DEF next_rotation_tp_, Date, d
<1> HIDE DEF today
<1> QED
  BY <1>3, <1>4

\* Initially nobody logs and the constructor has not opened the file.
LEMMA NullInit == Init => NullInv
<1> SUFFICES ASSUME Init PROVE NullInv
  OBVIOUS
<1> USE DailyLogAssumption DEF Init
<1>1. now \in Nat /\ info \in Level
  BY DEF info, Level
<1>2. NullTypes
  BY <1>1 DEF NullTypes
<1>3. Exclusive /\ Ahead /\ NotBefore /\ Reported
  BY DEF Exclusive, Ahead, NotBefore, Reported
<1> QED
  BY <1>2, <1>3 DEF NullInv

\* Every step keeps the invariant.
LEMMA NullStep ==
  ASSUME NullInv, [Next]_vars
  PROVE  NullInv'
<1> USE DailyLogAssumption
<1>0. NullTypes /\ Exclusive /\ Ahead /\ NotBefore /\ Reported
  BY DEF NullInv
<1>r. next_rotation_tp_(now) \in Nat /\ next_rotation_tp_(now) > now
  BY <1>0, RotationAhead DEF NullTypes
<1>1. CASE UNCHANGED vars
  BY <1>0, <1>1 DEF NullInv, NullTypes, Exclusive, Ahead, NotBefore, Reported,
    vars, sink, lines, reports
<1>2. CASE CreateOpens
  BY <1>0, <1>2, <1>r DEF CreateOpens, NullInv, NullTypes, Exclusive, Ahead, NotBefore,
    Reported
<1>3. CASE CreateFails
  BY <1>0, <1>3 DEF CreateFails, NullInv, NullTypes, Exclusive, Ahead, NotBefore,
    Reported, lines
<1>4. CASE Kill
  BY <1>0, <1>4 DEF Kill, NullInv, NullTypes, Exclusive, Ahead, NotBefore, Reported, sink
<1>5. CASE Tick
  BY <1>0, <1>5 DEF Tick, NullInv, NullTypes, Exclusive, Ahead, NotBefore, Reported,
    sink, lines
<1>6. ASSUME NEW t \in Thread, NEW lvl \in Logged, Log(t, lvl)
      PROVE  NullInv'
  <2>1. /\ msg'[t] = [n |-> msg[t].n + 1, level |-> lvl, time |-> now]
        /\ pc'[t] = "lock" /\ pc[t] = "idle"
        /\ \A s \in Thread \ {t} : msg'[s] = msg[s] /\ pc'[s] = pc[s]
        /\ status = "up"
        /\ UNCHANGED <<now, status, sink, errors>>
    BY <1>0, <1>6 DEF Log, NullTypes, lines
  <2>2. lvl \in Level
    OBVIOUS
  <2>3. msg' \in [Thread -> [n : Nat, level : Level, time : Nat]]
    BY <1>0, <1>6, <2>2 DEF Log, NullTypes
  <2>4. pc' \in [Thread -> {"idle", "lock", "open", "write", "report", "flush"}]
    BY <1>0, <1>6 DEF Log, NullTypes
  <2>5. NullTypes'
    BY <1>0, <2>1, <2>3, <2>4 DEF NullTypes, sink
  <2>6. Exclusive' /\ Ahead' /\ NotBefore'
    BY <1>0, <2>1 DEF Exclusive, Ahead, NotBefore, sink
  <2>7. Reported'
    BY <1>0, <2>1 DEF Reported, sink
  <2> QED
    BY <2>5, <2>6, <2>7 DEF NullInv
<1>7. ASSUME NEW t \in Thread, Sink(t)
      PROVE  NullInv'
  BY <1>0, <1>7 DEF Sink, NullInv, NullTypes, Exclusive, Ahead, NotBefore, Reported,
    lines
<1>8. ASSUME NEW t \in Thread, Rotate(t)
      PROVE  NullInv'
  BY <1>0, <1>8 DEF Rotate, NullInv, NullTypes, Exclusive, Ahead, NotBefore, Reported
<1>9. ASSUME NEW t \in Thread, Opens(t)
      PROVE  NullInv'
  BY <1>0, <1>9, <1>r DEF Opens, NullInv, NullTypes, Exclusive, Ahead, NotBefore,
    Reported, lines
<1>10. ASSUME NEW t \in Thread, OpenFails(t)
       PROVE  NullInv'
  <2>1. CASE tries' # OpenTries
    BY <1>0, <1>10, <2>1 DEF OpenFails, NullInv, NullTypes, Exclusive, Ahead, NotBefore,
      Reported
  <2>2. CASE tries' = OpenTries
    <3>1. /\ pc' = [pc EXCEPT ![t] = "report"]
          /\ pc[t] = "open" /\ status = "up"
          /\ errors' = errors \cup {Line(t)}
          /\ UNCHANGED <<now, status, msg, rotation_tp_, filename_, fd_>>
      BY <1>10, <2>2 DEF OpenFails, SinkThrows
    <3>2. /\ Line(t) \in errors'
          /\ Line(t).time = msg[t].time /\ Line(t).file = filename_
      BY <3>1 DEF Line
    <3>3. Reported'
      BY <1>0, <3>1, <3>2 DEF Reported, Ahead
    <3>4. \A s \in Thread : pc'[s] \notin {"open", "write"}
      BY <1>0, <3>1 DEF Exclusive, NullTypes
    <3>5. NullTypes' /\ Exclusive' /\ Ahead' /\ NotBefore'
      BY <1>0, <3>1, <3>4 DEF NullTypes, Exclusive, Ahead, NotBefore
    <3> QED
      BY <3>3, <3>5 DEF NullInv
  <2> QED
    BY <2>1, <2>2
<1>11. ASSUME NEW t \in Thread, Write(t)
       PROVE  NullInv'
  BY <1>0, <1>11 DEF Write, NullInv, NullTypes, Exclusive, Ahead, NotBefore, Reported
<1>12. ASSUME NEW t \in Thread, WriteNull(t)
       PROVE  NullInv'
  BY <1>0, <1>12 DEF WriteNull, NullInv, NullTypes, Exclusive, Ahead, NotBefore,
    Reported, sink
<1>13. ASSUME NEW t \in Thread, WriteFails(t)
       PROVE  NullInv'
  BY <1>0, <1>13 DEF WriteFails, SinkThrows, NullInv, NullTypes, Exclusive, Ahead,
    NotBefore, Reported
<1>14. ASSUME NEW t \in Thread, Flush(t)
       PROVE  NullInv'
  <2>1. /\ pc' = [pc EXCEPT ![t] = "idle"]
        /\ pc[t] = "flush" /\ status = "up"
        /\ UNCHANGED <<now, status, msg, sink, errors>>
    BY <1>14 DEF Flush, Flushed, lines
  <2> QED
    BY <1>0, <2>1 DEF NullInv, NullTypes, Exclusive, Ahead, NotBefore, Reported, sink
<1>15. ASSUME NEW t \in Thread, Report(t) \/ ReportNot(t)
       PROVE  NullInv'
  <2>1. /\ pc' = [pc EXCEPT ![t] = "flush"]
        /\ pc[t] = "report" /\ status = "up"
        /\ UNCHANGED <<now, status, msg, sink, errors>>
    BY <1>15 DEF Report, ReportNot, lines
  <2> QED
    BY <1>0, <2>1 DEF NullInv, NullTypes, Exclusive, Ahead, NotBefore, Reported, sink
<1> QED
  BY <1>1, <1>2, <1>3, <1>4, <1>5, <1>6, <1>7, <1>8, <1>9, <1>10, <1>11, <1>12, <1>13,
    <1>14, <1>15 DEF Next, Step

\* Only a message that was overtaken by a failed rotation meets a null handle:
\* sink_it_ moves the time of rotation once open() has returned, so a message
\* past it opens the file again.
THEOREM NullHandleIsOvertaken == Spec => []NullOnlyOvertaken
<1>1. NullInv => NullOnlyOvertaken
  <2> SUFFICES ASSUME NullInv, NEW t \in Thread,
                      status = "up", pc[t] = "write", fd_ = "null"
               PROVE  /\ msg[t].time < rotation_tp_
                      /\ \E l \in errors : l.time >= rotation_tp_ /\ l.file = filename_
    BY DEF NullOnlyOvertaken
  <2>1. \A s \in Thread : pc[s] # "open"
    BY DEF NullInv, Exclusive
  <2> QED
    BY <2>1 DEF NullInv, Ahead, Reported
<1>2. Init => NullInv
  BY NullInit
<1>3. NullInv /\ [Next]_vars => NullInv'
  BY NullStep
<1> QED
  BY <1>1, <1>2, <1>3, PTL DEF Spec

-----------------------------------------------------------------------------
(* The date of a line's file.                                               *)

\* The tick a day begins with.
Start(day) == day * DayLen

\* A day lasts DayLen ticks and the next begins where it ends.
LEMMA Days ==
  ASSUME NEW a \in Nat, NEW b \in Nat
  PROVE  /\ Start(a) \in Nat /\ Start(0) = 0
         /\ Start(a + 1) = Start(a) + DayLen
         /\ a < b => Start(a) + DayLen <= Start(b)
<1> USE DailyLogAssumption DEF Start
<1>1. Start(a) \in Nat /\ Start(0) = 0 /\ Start(a + 1) = Start(a) + DayLen
  BY Z3
<1>2. ASSUME a < b
      PROVE  Start(a) + DayLen <= Start(b)
  <2>1. PICK k \in Nat : b = a + 1 + k
    <3>1. b - (a + 1) \in Nat /\ b = a + 1 + (b - (a + 1))
      BY <1>2
    <3> QED
      BY <3>1
  <2>2. Start(b) = Start(a) + DayLen + k * DayLen /\ k * DayLen \in Nat
    BY <2>1, Z3
  <2> QED
    BY <1>1, <2>2
<1> QED
  BY <1>1, <1>2

\* A day does not begin before an earlier one.
LEMMA StartsGrow ==
  ASSUME NEW a \in Nat, NEW b \in Nat, a <= b
  PROVE  Start(a) <= Start(b)
<1>1. CASE a = b
  <2>1. Start(a) \in Nat
    BY Days
  <2> QED
    BY <1>1, <2>1
<1>2. CASE a < b
  <2>1. Start(a) \in Nat /\ Start(b) \in Nat /\ Start(a) + DayLen <= Start(b)
    BY <1>2, Days
  <2> QED
    BY <2>1, DailyLogAssumption
<1> QED
  BY <1>1, <1>2

\* A moment lies in its date's day.
LEMMA InItsDay ==
  ASSUME NEW time \in Nat
  PROVE  /\ Date(time) \in Nat
         /\ Start(Date(time)) <= time /\ time < Start(Date(time)) + DayLen
<1> DEFINE d == time \div DayLen
<1>1. time = d * DayLen + (time % DayLen) /\ time % DayLen \in 0 .. DayLen - 1 /\ d \in Nat
  BY DailyLogAssumption, Z3
<1>2. d * DayLen \in Nat /\ d = Date(time)
  BY <1>1, DailyLogAssumption DEF Date
<1> HIDE DEF d
<1> QED
  BY <1>1, <1>2, DailyLogAssumption DEF Start

\* Before the end of a day its date is not past.
LEMMA NotPast ==
  ASSUME NEW time \in Nat, NEW day \in Nat, time < Start(day) + DayLen
  PROVE  Date(time) <= day
<1>1. Date(time) > day => Start(day) + DayLen <= Start(Date(time))
  BY InItsDay, Days
<1> QED
  BY <1>1, InItsDay, Days, DailyLogAssumption

\* A file opened at most MaxLag ticks after the message that names it is
\* rotated before the day after the next begins.
LEMMA RotationNear ==
  ASSUME MaxLag <= RotationAt,
         NEW time \in Nat, NEW later \in Nat, time <= later, later <= time + MaxLag
  PROVE  next_rotation_tp_(later) <= Start(Date(time) + 2)
<1> USE DailyLogAssumption
<1> DEFINE d == Date(time)
           e == Date(later)
           today == Start(e) + RotationAt
<1>1. /\ d \in Nat /\ time < Start(d) + DayLen
      /\ e \in Nat /\ Start(e) <= later
  BY InItsDay
<1>2. /\ Start(d) \in Nat /\ Start(e) \in Nat
      /\ Start(d + 1) = Start(d) + DayLen
      /\ Start(d + 2) = Start(d) + DayLen + DayLen
  <2>1. Start((d + 1) + 1) = Start(d + 1) + DayLen /\ (d + 1) + 1 = d + 2
    BY <1>1, Days
  <2> QED
    BY <1>1, <2>1, Days
<1>3. later < Start(d) + DayLen + RotationAt
  BY <1>1, <1>2
<1>4. e <= d + 1
  <2>1. later < Start(d + 1) + DayLen
    BY <1>2, <1>3
  <2> QED
    BY <1>1, <2>1, NotPast
<1>5. next_rotation_tp_(later) = IF today > later THEN today ELSE today + DayLen
  BY DEF next_rotation_tp_, Start
<1>6. Start(e) <= Start(d + 1)
  BY <1>1, <1>4, StartsGrow
<1>7. e <= d => Start(e) <= Start(d)
  BY <1>1, StartsGrow
<1>8. CASE today > later
  BY <1>2, <1>5, <1>6, <1>8
<1>9. CASE today <= later
  <2>1. Start(e) < Start(d + 1)
    BY <1>2, <1>3, <1>9
  <2>2. e <= d
    BY <1>1, <1>2, <1>4, <2>1
  <2> QED
    BY <1>2, <1>5, <1>7, <1>9, <2>2
<1> HIDE DEF d, e, today
<1> QED
  BY <1>1, <1>2, <1>8, <1>9 DEF today

\* What a call has seen of the clock, and the file of its time.
DateInv ==
  /\ NullInv
  /\ filename_ \in Nat
  /\ Start(filename_) <= now
  /\ status = "creating" => filename_ = 0 /\ now <= DayLen
  /\ fd_ = "open" => rotation_tp_ <= Start(filename_ + 2)
  /\ \A t \in Thread : pc[t] # "idle" => now <= msg[t].time + MaxLag
  /\ \A t \in Thread : pc[t] = "open" => filename_ = Date(msg[t].time)
  /\ FileNearDate

\* Initially the file is that of the first day and has no lines.
LEMMA DateInit == Init => DateInv
<1> SUFFICES ASSUME Init PROVE DateInv
  OBVIOUS
<1> USE DailyLogAssumption
<1>1. NullInv
  BY NullInit
<1>2. now \in Nat /\ now < Start(0) + DayLen /\ Start(0) = 0
  BY Days DEF Init
<1>3. Date(now) = 0
  BY <1>2, NotPast, InItsDay
<1>4. FileNearDate
  BY DEF Init, FileNearDate
<1> QED
  BY <1>1, <1>2, <1>3, <1>4 DEF Init, DateInv

\* A line written to the open file is near the file's date.
LEMMA WrittenNear ==
  ASSUME MaxLag <= RotationAt, DateInv, NEW t \in Thread, pc[t] = "write", fd_ = "open"
  PROVE  filename_ <= Date(msg[t].time) + 1 /\ Date(msg[t].time) <= filename_ + 1
<1> USE DailyLogAssumption
<1> DEFINE time == msg[t].time
           d == Date(time)
<1>1. /\ time \in Nat /\ now \in Nat /\ filename_ \in Nat /\ rotation_tp_ \in Nat
      /\ time < rotation_tp_ /\ rotation_tp_ <= Start(filename_ + 2)
      /\ Start(filename_) <= now /\ now <= time + MaxLag
  BY DEF DateInv, NullInv, NullTypes, Ahead
<1>2. d \in Nat /\ Start(d) <= time /\ time < Start(d) + DayLen
  BY <1>1, InItsDay
<1> HIDE DEF d, time
<1>3. \A k \in Nat : Start(k) \in Nat /\ Start(k + 1) = Start(k) + DayLen
  BY Days
<1>4. \A k \in Nat : Start(k + 2) = Start(k + 1) + DayLen
  <2> SUFFICES ASSUME NEW k \in Nat PROVE Start(k + 2) = Start(k + 1) + DayLen
    OBVIOUS
  <2>1. (k + 1) + 1 = k + 2 /\ k + 1 \in Nat
    OBVIOUS
  <2> QED
    BY <1>3, <2>1
<1>5. d <= filename_ + 1
  <2>1. filename_ + 1 \in Nat /\ Start(filename_ + 1) \in Nat
    BY <1>1, <1>3
  <2>2. time < Start(filename_ + 1) + DayLen
    BY <1>1, <1>4, <2>1
  <2> QED
    BY <1>1, <2>1, <2>2, NotPast DEF d
<1>6. filename_ <= d + 1
  <2>1. d + 2 \in Nat /\ Start(d) \in Nat /\ Start(d + 2) = Start(d) + DayLen + DayLen
    BY <1>2, <1>3, <1>4
  <2>2. Start(filename_) \in Nat /\ Start(filename_) < Start(d + 2)
    BY <1>1, <1>2, <1>3, <2>1
  <2>3. d + 2 <= filename_ => Start(d + 2) <= Start(filename_)
    BY <1>1, <2>1, StartsGrow
  <2> QED
    BY <1>1, <1>2, <2>1, <2>2, <2>3
<1> QED
  BY <1>5, <1>6 DEF d, time

\* A file that was opened is rotated before the day after the next.
LEMMA OpenedNear ==
  ASSUME MaxLag <= RotationAt, DateInv, NEW t \in Thread, pc[t] = "open"
  PROVE  next_rotation_tp_(now) <= Start(filename_ + 2)
<1>1. /\ now \in Nat /\ msg[t].time \in Nat /\ msg[t].time <= now
      /\ now <= msg[t].time + MaxLag
      /\ filename_ = Date(msg[t].time)
  BY DEF DateInv, NullInv, NullTypes
<1> QED
  BY <1>1, RotationNear

\* The file that the constructor opens is rotated on its day or the next.
LEMMA CreatedNear ==
  ASSUME MaxLag <= RotationAt, DateInv, status = "creating"
  PROVE  next_rotation_tp_(now) <= Start(filename_ + 2)
<1> USE DailyLogAssumption
<1>1. now \in Nat /\ now <= DayLen /\ filename_ = 0
  BY DEF DateInv, NullInv, NullTypes
<1>2. Start(0) = 0 /\ Start(0 + 1) = DayLen /\ Start(1 + 1) = Start(1) + DayLen
  BY Days
<1>3. Start(1) = DayLen /\ Start(2) = DayLen + DayLen
  BY <1>2
<1>4. Date(now) \in Nat /\ Date(now) <= 1 /\ Start(Date(now)) <= now
  BY <1>1, <1>3, InItsDay, NotPast
<1>5. Date(now) = 0 \/ Date(now) = 1
  BY <1>4
<1>6. next_rotation_tp_(now) =
        IF Start(Date(now)) + RotationAt > now THEN Start(Date(now)) + RotationAt
                                               ELSE Start(Date(now)) + RotationAt + DayLen
  BY DEF next_rotation_tp_, Start
<1>7. RotationAt > 0 => next_rotation_tp_(now) <= DayLen + DayLen
  BY <1>1, <1>2, <1>3, <1>4, <1>5, <1>6
<1>8. RotationAt = 0 => next_rotation_tp_(now) <= DayLen + DayLen
  BY <1>1, <1>2, <1>3, <1>4, <1>5, <1>6
<1> QED
  BY <1>1, <1>3, <1>7, <1>8

\* Lines are near their files as long as no other lines appear.
LEMMA NearStays ==
  ASSUME FileNearDate, disk' \cup buffer' \subseteq disk \cup buffer
  PROVE  FileNearDate'
  BY DEF FileNearDate

\* Every step keeps the invariant.
LEMMA DateStep ==
  ASSUME MaxLag <= RotationAt, DateInv, [Next]_vars
  PROVE  DateInv'
<1> USE DailyLogAssumption
<1>n. NullInv'
  BY NullStep DEF DateInv
<1>0. /\ NullTypes /\ Exclusive /\ NotBefore
      /\ filename_ \in Nat
      /\ Start(filename_) <= now
      /\ status = "creating" => filename_ = 0 /\ now <= DayLen
      /\ fd_ = "open" => rotation_tp_ <= Start(filename_ + 2)
      /\ \A t \in Thread : pc[t] # "idle" => now <= msg[t].time + MaxLag
      /\ \A t \in Thread : pc[t] = "open" => filename_ = Date(msg[t].time)
      /\ FileNearDate
  BY DEF DateInv, NullInv
<1>t. /\ now \in Nat
      /\ pc \in [Thread -> {"idle", "lock", "open", "write", "report", "flush"}]
      /\ msg \in [Thread -> [n : Nat, level : Level, time : Nat]]
      /\ \A t \in Thread : msg[t].time <= now
  BY <1>0 DEF NullTypes
<1>1. CASE UNCHANGED vars
  BY <1>n, <1>0, <1>1, NearStays DEF DateInv, vars, sink, lines
<1>2. CASE CreateOpens
  BY <1>n, <1>0, <1>2, CreatedNear, NearStays DEF CreateOpens, DateInv, lines
<1>3. CASE CreateFails
  BY <1>n, <1>0, <1>3, NearStays DEF CreateFails, DateInv, lines
<1>4. CASE Kill
  BY <1>n, <1>0, <1>4, NearStays DEF Kill, DateInv, sink
<1>5. CASE Tick
  <2>1. /\ now' = now + 1
        /\ status = "creating" => now < DayLen
        /\ \A t \in Thread : pc[t] # "idle" => now - msg[t].time < MaxLag
        /\ UNCHANGED <<status, pc, msg, filename_, fd_, rotation_tp_, buffer, disk>>
    BY <1>5 DEF Tick, sink, lines
  <2>2. \A t \in Thread : pc[t] # "idle" => now + 1 <= msg[t].time + MaxLag
    BY <1>t, <2>1
  <2>3. Start(filename_) <= now + 1
    BY <1>0, <1>t, Days
  <2>4. status = "creating" => now + 1 <= DayLen
    BY <1>t, <2>1
  <2>5. FileNearDate'
    BY <1>0, <2>1, NearStays
  <2> QED
    BY <1>n, <1>0, <2>1, <2>2, <2>3, <2>4, <2>5 DEF DateInv
<1>6. ASSUME NEW t \in Thread, NEW lvl \in Logged, Log(t, lvl)
      PROVE  DateInv'
  <2>1. /\ msg'[t].time = now
        /\ pc'[t] = "lock"
        /\ \A s \in Thread \ {t} : msg'[s] = msg[s] /\ pc'[s] = pc[s]
        /\ UNCHANGED <<now, status, filename_, fd_, rotation_tp_, buffer, disk>>
    BY <1>t, <1>6 DEF Log, sink, lines
  <2>2. \A s \in Thread : pc'[s] # "idle" => now <= msg'[s].time + MaxLag
    BY <1>0, <1>t, <2>1
  <2>3. \A s \in Thread : pc'[s] = "open" => filename_ = Date(msg'[s].time)
    BY <1>0, <2>1
  <2>4. FileNearDate'
    BY <1>0, <2>1, NearStays
  <2> QED
    BY <1>n, <1>0, <2>1, <2>2, <2>3, <2>4 DEF DateInv
<1>7. ASSUME NEW t \in Thread, Sink(t)
      PROVE  DateInv'
  BY <1>n, <1>0, <1>t, <1>7, NearStays DEF Sink, DateInv, lines
<1>8. ASSUME NEW t \in Thread, Rotate(t)
      PROVE  DateInv'
  <2>1. /\ pc[t] = "lock" /\ mutex_ = NoThread /\ status = "up"
        /\ filename_' = Date(msg[t].time)
        /\ fd_' = "null"
        /\ pc' = [pc EXCEPT ![t] = "open"]
        /\ UNCHANGED <<now, status, msg>>
        /\ disk' \cup buffer' \subseteq disk \cup buffer
    BY <1>8 DEF Rotate, Flushed
  <2>2. \A s \in Thread \ {t} : pc'[s] # "open"
    BY <1>0, <1>t, <2>1 DEF Exclusive
  <2>3. filename_' \in Nat /\ Start(filename_') <= now
    <3>1. msg[t].time \in Nat /\ msg[t].time <= now
      BY <1>t
    <3>2. Start(Date(msg[t].time)) \in Nat
      BY <3>1, InItsDay, Days
    <3> QED
      BY <1>t, <2>1, <3>1, <3>2, InItsDay
  <2>4. \A s \in Thread : pc'[s] # "idle" => now <= msg[s].time + MaxLag
    BY <1>0, <1>t, <2>1
  <2>5. FileNearDate'
    BY <1>0, <2>1, NearStays
  <2> QED
    BY <1>n, <2>1, <2>2, <2>3, <2>4, <2>5 DEF DateInv
<1>9. ASSUME NEW t \in Thread, Opens(t)
      PROVE  DateInv'
  <2>1. next_rotation_tp_(now) <= Start(filename_ + 2)
    BY <1>9, OpenedNear DEF Opens
  <2> QED
    BY <1>n, <1>0, <1>t, <1>9, <2>1, NearStays DEF Opens, DateInv, lines
<1>10. ASSUME NEW t \in Thread, OpenFails(t)
       PROVE  DateInv'
  BY <1>n, <1>0, <1>t, <1>10, NearStays DEF OpenFails, SinkThrows, DateInv
<1>11. ASSUME NEW t \in Thread, Write(t)
       PROVE  DateInv'
  <2>1. filename_ <= Date(msg[t].time) + 1 /\ Date(msg[t].time) <= filename_ + 1
    BY <1>11, WrittenNear DEF Write
  <2>2. Line(t).file = filename_ /\ Line(t).time = msg[t].time
    BY DEF Line
  <2>3. FileNearDate'
    BY <1>0, <1>11, <2>1, <2>2 DEF Write, FileNearDate
  <2> QED
    BY <1>n, <1>0, <1>t, <1>11, <2>3 DEF Write, DateInv
<1>12. ASSUME NEW t \in Thread, WriteNull(t)
       PROVE  DateInv'
  BY <1>n, <1>0, <1>12, NearStays DEF WriteNull, DateInv, sink
<1>13. ASSUME NEW t \in Thread, WriteFails(t)
       PROVE  DateInv'
  BY <1>n, <1>0, <1>t, <1>13, NearStays DEF WriteFails, SinkThrows, DateInv
<1>14. ASSUME NEW t \in Thread, Flush(t)
       PROVE  DateInv'
  <2>1. /\ pc' = [pc EXCEPT ![t] = "idle"]
        /\ UNCHANGED <<now, status, msg, filename_, fd_, rotation_tp_>>
        /\ disk' \cup buffer' \subseteq disk \cup buffer
    BY <1>14 DEF Flush, Flushed, sink, lines
  <2>2. FileNearDate'
    BY <1>0, <2>1, NearStays
  <2> QED
    BY <1>n, <1>0, <1>t, <2>1, <2>2 DEF DateInv
<1>15. ASSUME NEW t \in Thread, Report(t) \/ ReportNot(t)
       PROVE  DateInv'
  BY <1>n, <1>0, <1>t, <1>15, NearStays DEF Report, ReportNot, sink, lines, DateInv
<1> QED
  BY <1>1, <1>2, <1>3, <1>4, <1>5, <1>6, <1>7, <1>8, <1>9, <1>10, <1>11, <1>12, <1>13,
    <1>14, <1>15 DEF Next, Step

\* A line is in the file of its date or of a day next to it, if no call lasts
\* longer than from midnight to the rotation: daily_file_sink rotates by the
\* clock at the opening and names the file by the message that caused it.
THEOREM FilesNearDate ==
  ASSUME MaxLag <= RotationAt
  PROVE  Spec => []FileNearDate
<1>1. Init => DateInv
  BY DateInit
<1>2. DateInv /\ [Next]_vars => DateInv'
  BY DateStep
<1>3. DateInv => FileNearDate
  BY DEF DateInv
<1> QED
  BY <1>1, <1>2, <1>3, PTL DEF Spec

-----------------------------------------------------------------------------
(* Types.                                                                   *)

\* The tries that are counted have not been used up.
TriesLeft ==
  /\ status = "creating" => tries < OpenTries
  /\ \A t \in Thread : pc[t] = "open" => tries < OpenTries

DailyTypeInv == DailyTypeOK /\ TriesLeft

\* A line has its type.
LEMMA LineTyped ==
  ASSUME DailyTypeOK, NEW t \in Thread
  PROVE  Line(t) \in LineType
  BY DEF DailyTypeOK, Line, LineType

\* Initially there are no lines and no tries.
LEMMA TypeInit == Init => DailyTypeInv
<1> SUFFICES ASSUME Init PROVE DailyTypeInv
  OBVIOUS
<1> USE DailyLogAssumption
<1>1. now \in Nat /\ filename_ \in Nat
  BY InItsDay DEF Init
<1>2. level \in Level /\ info \in Level
  BY DEF Init, get_logger_level, Level, debug, info, err
<1> QED
  BY <1>1, <1>2 DEF Init, DailyTypeInv, DailyTypeOK, TriesLeft

\* Every step keeps the types.
LEMMA TypeStep ==
  ASSUME DailyTypeInv, NullInv, [Next]_vars
  PROVE  DailyTypeInv'
<1> USE DailyLogAssumption
<1>0. DailyTypeOK /\ TriesLeft /\ Exclusive /\ NotBefore
  BY DEF DailyTypeInv, NullInv
<1>r. next_rotation_tp_(now) \in Nat
  BY <1>0, RotationAhead DEF DailyTypeOK
<1>l. \A t \in Thread : Line(t) \in LineType
  BY <1>0, LineTyped
<1>1. CASE UNCHANGED vars
  BY <1>0, <1>1 DEF DailyTypeInv, DailyTypeOK, TriesLeft, vars, sink, lines, reports
<1>2. CASE CreateOpens
  BY <1>0, <1>r, <1>2 DEF CreateOpens, DailyTypeInv, DailyTypeOK, TriesLeft, lines, reports
<1>3. CASE CreateFails
  BY <1>0, <1>3 DEF CreateFails, DailyTypeInv, DailyTypeOK, TriesLeft, NotBefore, lines, reports
<1>4. CASE Kill
  BY <1>0, <1>4 DEF Kill, DailyTypeInv, DailyTypeOK, TriesLeft, sink, reports
<1>5. CASE Tick
  BY <1>0, <1>5 DEF Tick, DailyTypeInv, DailyTypeOK, TriesLeft, sink, lines, reports
<1>6. ASSUME NEW t \in Thread, NEW lvl \in Logged, Log(t, lvl)
      PROVE  DailyTypeInv'
  <2>1. msg' \in [Thread -> [n : Nat, level : Level, time : Nat]]
    BY <1>0, <1>6 DEF Log, DailyTypeOK
  <2> QED
    BY <1>0, <1>6, <2>1 DEF Log, DailyTypeInv, DailyTypeOK, TriesLeft, sink, lines, reports
<1>7. ASSUME NEW t \in Thread, Sink(t)
      PROVE  DailyTypeInv'
  BY <1>0, <1>7 DEF Sink, DailyTypeInv, DailyTypeOK, TriesLeft, lines, reports
<1>8. ASSUME NEW t \in Thread, Rotate(t)
      PROVE  DailyTypeInv'
  <2>1. filename_' \in Nat
    BY <1>0, <1>8, InItsDay DEF Rotate, DailyTypeOK
  <2> QED
    BY <1>0, <1>8, <2>1 DEF Rotate, Flushed, DailyTypeInv, DailyTypeOK, TriesLeft, reports
<1>9. ASSUME NEW t \in Thread, Opens(t)
      PROVE  DailyTypeInv'
  BY <1>0, <1>r, <1>9 DEF Opens, DailyTypeInv, DailyTypeOK, TriesLeft, lines, reports
<1>10. ASSUME NEW t \in Thread, OpenFails(t)
       PROVE  DailyTypeInv'
  <2>1. tries' \in 0 .. OpenTries /\ status = "up" /\ errors' \subseteq LineType
    BY <1>0, <1>l, <1>10 DEF OpenFails, SinkThrows, DailyTypeOK, TriesLeft
  <2>2. \A s \in Thread : pc'[s] = "open" => tries' < OpenTries
    BY <1>0, <1>10, <2>1 DEF OpenFails, SinkThrows, DailyTypeOK, Exclusive
  <2> QED
    BY <1>0, <1>10, <2>1, <2>2
      DEF OpenFails, SinkThrows, DailyTypeInv, DailyTypeOK, TriesLeft, reports
<1>11. ASSUME NEW t \in Thread, Write(t)
       PROVE  DailyTypeInv'
  BY <1>0, <1>l, <1>11 DEF Write, DailyTypeInv, DailyTypeOK, TriesLeft, reports
<1>12. ASSUME NEW t \in Thread, WriteNull(t)
       PROVE  DailyTypeInv'
  BY <1>0, <1>12 DEF WriteNull, DailyTypeInv, DailyTypeOK, TriesLeft, sink, reports
<1>13. ASSUME NEW t \in Thread, WriteFails(t)
       PROVE  DailyTypeInv'
  BY <1>0, <1>l, <1>13 DEF WriteFails, SinkThrows, DailyTypeInv, DailyTypeOK, TriesLeft, reports
<1>15. ASSUME NEW t \in Thread, Report(t) \/ ReportNot(t)
       PROVE  DailyTypeInv'
  <2>1. Call(t) \in CallType
    BY <1>0 DEF Call, CallType, DailyTypeOK
  <2> QED
    BY <1>0, <1>15, <2>1
      DEF Report, ReportNot, DailyTypeInv, DailyTypeOK, TriesLeft, sink, lines
<1>14. ASSUME NEW t \in Thread, Flush(t)
       PROVE  DailyTypeInv'
  BY <1>0, <1>14 DEF Flush, Flushed, DailyTypeInv, DailyTypeOK, TriesLeft, sink, lines, reports
<1> QED
  BY <1>1, <1>2, <1>3, <1>4, <1>5, <1>6, <1>7, <1>8, <1>9, <1>10, <1>11, <1>12, <1>13,
    <1>14, <1>15 DEF Next, Step

\* The log's variables keep their types; that of tries bounds how often
\* file_helper::open tries one file.
THEOREM DailyTypeCorrect == Spec => []DailyTypeOK
<1>1. Init => DailyTypeInv /\ NullInv
  BY TypeInit, NullInit
<1>2. DailyTypeInv /\ NullInv /\ [Next]_vars => (DailyTypeInv /\ NullInv)'
  BY TypeStep, NullStep
<1>3. DailyTypeInv /\ NullInv => DailyTypeOK
  BY DEF DailyTypeInv
<1> QED
  BY <1>1, <1>2, <1>3, PTL DEF Spec
=============================================================================
