---------------------------- MODULE LogPipeline ----------------------------
(***************************************************************************)
(* From FreeRADIUS' log file to the list of authentications: the parser    *)
(* thread (src/freeradius_log_parser.py) that main.py runs, and the        *)
(* Log_Manager (src/log_manager.py) that keeps the entries, in memory and  *)
(* in the auth_logs table.                                                 *)
(*                                                                         *)
(* The parser reads what is new in the file and makes an entry of each     *)
(* line.  An entry takes three steps, since the process may stop between   *)
(* any two transactions: it is appended and saved, the list is rotated,    *)
(* its date is replaced by the one of the line and it is saved again.      *)
(*                                                                         *)
(* Left out: lines that match no pattern, which make no entry; the set     *)
(* processed_lines, which never holds a line that is read, because         *)
(* FreeRADIUS numbers its requests and the position never goes back; the   *)
(* policy name, which is always None.                                      *)
(***************************************************************************)
EXTENDS Integers, Sequences, FiniteSets, Dicts

CONSTANTS
    Keys,           \* pairs of a MAC address and an outcome
    NoKey,          \* no entry has been made
    MaxLogs,        \* MAX_LOGS
    Window,         \* DEDUP_WINDOW_SECONDS
    Shift,          \* what _parse_timestamp adds to the time of a line
    MaxTime,        \* bound: the last moment
    MaxEvents,      \* bound: authentications FreeRADIUS logs
    MaxStarts       \* bound: starts of the process

ASSUME LimitsArePositive == MaxLogs \in Nat \ {0} /\ Window \in Nat \ {0}
ASSUME ShiftIsNatural == Shift \in Nat
ASSUME BoundsAreNatural == MaxTime \in Nat /\ MaxEvents \in Nat /\ MaxStarts \in Nat \ {0}
ASSUME NoKeyIsNoEntry == NoKey \notin [key : Keys, at : 0..MaxTime]

VARIABLES
    clock,          \* datetime.utcnow()
    file,           \* the lines of the log file: [n, key, at]
    written,        \* how many lines FreeRADIUS has written
    truncated,      \* whether the file has been rotated away
    position,       \* last_position, in lines
    unread,         \* the lines that f.readlines() returned and the loop has
                    \* still to process
    recent,         \* recent_logs: key -> when an entry was made of it
    logs,           \* _logs: entries [id, key, time]
    table,          \* rows of auth_logs, the same
    at,             \* where the parser is: "sleep", "lines", "rotate", "insert"
    entry,          \* the entry it is making, and the time of its line
    made,           \* ghost: for each key the last entry this process has made
                    \* of it, and when
    ids,            \* ghost: entries made, the ids given to them
    lastRead,       \* ghost: the last line an entry or a suppression came of
    starts,         \* ghost: starts of the process
    failed          \* ghost: SQLite has failed (bound: it fails once)

freeradius == <<file, written, truncated>>
parser == <<position, unread, recent>>
manager == <<logs, table>>
ghosts == <<made, ids, lastRead, starts, failed>>
vars == <<clock, freeradius, parser, manager, at, entry, ghosts>>

-----------------------------------------------------------------------------
(* Lists of entries *)

\* The positions of what comes before es[i] when the newest go first.
Before(es, i) == {j \in DOMAIN es : \/ es[j].time > es[i].time
                                    \/ es[j].time = es[i].time /\ j < i}

\* sorted(es, key=timestamp, reverse=True): stable, the newest first
Sorted(es) ==
    [r \in DOMAIN es |->
        es[CHOOSE i \in DOMAIN es : Cardinality(Before(es, i)) = r - 1]]

\* _save_data: the rows become the list, or an SQLite error is swallowed.
SaveData(list) ==
    \/ table' = list /\ UNCHANGED failed
    \/ ~failed /\ failed' = TRUE /\ UNCHANGED table

\* save_log, in a thread without an event loop, inserts the row at once; the
\* id is in the table already unless the save failed or the rotation has
\* dropped the entry, and then the INSERT fails and the error is swallowed.
SaveLog(log) ==
    \/ /\ table' = IF \E i \in DOMAIN table : table[i].id = log.id
                   THEN table ELSE Append(table, log)
       /\ UNCHANGED failed
    \/ ~failed /\ failed' = TRUE /\ UNCHANGED table

-----------------------------------------------------------------------------
(* The environment: time, FreeRADIUS and the rotation of its file *)

Tick ==
    /\ clock < MaxTime
    /\ clock' = clock + 1
    /\ UNCHANGED <<freeradius, parser, manager, at, entry, ghosts>>

\* FreeRADIUS answers a request and logs it.
Authenticate(k) ==
    /\ written < MaxEvents
    /\ written' = written + 1
    /\ file' = Append(file, [n |-> written', key |-> k, at |-> clock])
    /\ UNCHANGED <<clock, truncated, parser, manager, at, entry, ghosts>>

\* logrotate replaces the file by an empty one, once.  Lines are counted as if
\* they were equally long.
RotateFile ==
    /\ ~truncated
    /\ truncated' = TRUE
    /\ file' = <<>>
    /\ UNCHANGED <<clock, written, parser, manager, at, entry, ghosts>>

-----------------------------------------------------------------------------
(* parse_logs *)

\* a mutant of ReadLines: the seek is one line too far
ReadLinesOffByOne ==
    /\ at = "sleep"
    /\ unread' = SubSeq(file, position + 2, Len(file))
    /\ position' = IF position > Len(file) THEN position ELSE Len(file)
    /\ at' = "lines"
    /\ UNCHANGED <<clock, freeradius, recent, manager, entry, ghosts>>

\* seek, readlines and tell: past the end of a shorter file nothing is read
\* and the position stays.
ReadLines ==
    /\ at = "sleep"
    /\ unread' = SubSeq(file, position + 1, Len(file))
    /\ position' = IF position > Len(file) THEN position ELSE Len(file)
    /\ at' = "lines"
    /\ UNCHANGED <<clock, freeradius, recent, manager, entry, ghosts>>

\* _is_duplicate: the time that counts is the time of the look, not of the line
IsDuplicate(k) == k \in DOMAIN recent /\ clock - recent[k] < Window

\* _parse_timestamp: the time of the line, taken for UTC and moved three hours
ParsedTime(time) == time + Shift

\* _process_line up to the duplicate check
SuppressLine ==
    /\ at = "lines"
    /\ unread # <<>>
    /\ IsDuplicate(Head(unread).key)
    /\ unread' = Tail(unread)
    /\ lastRead' = Head(unread).n
    /\ UNCHANGED <<clock, freeradius, position, recent, manager, at, entry,
                   made, ids, starts, failed>>

\* _is_duplicate has noted the time, and create_log_entry has appended the new
\* entry, dated now, and saved the list.
CreateLogEntry ==
    LET line == Head(unread)
    IN  /\ at = "lines"
        /\ unread # <<>>
        /\ ~IsDuplicate(line.key)
        /\ unread' = Tail(unread)
        /\ lastRead' = line.n
        /\ recent' = Put(recent, line.key, clock)
        /\ ids' = ids + 1
        /\ made' = Put(made, line.key, [id |-> ids', at |-> clock])
        /\ logs' = Append(logs, [id |-> ids', key |-> line.key, time |-> clock])
        /\ SaveData(logs')
        /\ entry' = [key |-> line.key, at |-> line.at]
        /\ at' = "rotate"
        /\ UNCHANGED <<clock, freeradius, position, starts>>

\* a mutant of RotateLogs: the list shrinks by one entry at most
RotateLogsByOne ==
    /\ at = "rotate"
    /\ IF Len(logs) > MaxLogs
       THEN /\ logs' = SubSeq(Sorted(logs), 1, Len(logs) - 1)
            /\ SaveData(logs')
       ELSE UNCHANGED <<manager, failed>>
    /\ at' = "insert"
    /\ UNCHANGED <<clock, freeradius, parser, entry, made, ids, lastRead, starts>>

\* another: what is saved is cut, what is kept is not
RotateLogsTableOnly ==
    /\ at = "rotate"
    /\ IF Len(logs) > MaxLogs
       THEN SaveData(SubSeq(Sorted(logs), 1, MaxLogs))
       ELSE UNCHANGED <<table, failed>>
    /\ at' = "insert"
    /\ UNCHANGED <<clock, freeradius, parser, logs, entry, made, ids, lastRead, starts>>

\* _rotate_logs: a list that is too long is cut to the MaxLogs newest, in that
\* order, and saved.
RotateLogs ==
    /\ at = "rotate"
    /\ IF Len(logs) > MaxLogs
       THEN /\ logs' = SubSeq(Sorted(logs), 1, MaxLogs)
            /\ SaveData(logs')
       ELSE UNCHANGED <<manager, failed>>
    /\ at' = "insert"
    /\ UNCHANGED <<clock, freeradius, parser, entry, made, ids, lastRead, starts>>

\* a mutant of InsertLog: the table takes an id twice
InsertLogTwice ==
    LET dated == [id |-> ids, key |-> entry.key, time |-> ParsedTime(entry.at)]
    IN  /\ at = "insert"
        /\ logs' = [i \in DOMAIN logs |-> IF logs[i].id = ids THEN dated ELSE logs[i]]
        /\ table' = Append(table, dated)
        /\ at' = "lines"
        /\ entry' = NoKey
        /\ UNCHANGED <<clock, freeradius, parser, made, ids, lastRead, starts, failed>>

\* The entry gets the time of the line, wherever it is by now, and goes to
\* save_log.
InsertLog ==
    LET dated == [id |-> ids, key |-> entry.key, time |-> ParsedTime(entry.at)]
    IN  /\ at = "insert"
        /\ logs' = [i \in DOMAIN logs |-> IF logs[i].id = ids THEN dated ELSE logs[i]]
        /\ SaveLog(dated)
        /\ at' = "lines"
        /\ entry' = NoKey
        /\ UNCHANGED <<clock, freeradius, parser, made, ids, lastRead, starts>>

\* a mutant of CleanUp: the cutoff is now
CleanUpAll ==
    /\ at = "lines"
    /\ unread = <<>>
    /\ recent' = [k \in {k \in DOMAIN recent : recent[k] > clock} |-> recent[k]]
    /\ at' = "sleep"
    /\ UNCHANGED <<clock, freeradius, position, unread, manager, entry, ghosts>>

\* _cleanup_dedup_cache, and the thread sleeps
CleanUp ==
    /\ at = "lines"
    /\ unread = <<>>
    /\ recent' = [k \in {k \in DOMAIN recent : clock - recent[k] <= 2 * Window} |->
                    recent[k]]
    /\ at' = "sleep"
    /\ UNCHANGED <<clock, freeradius, position, unread, manager, entry, ghosts>>

-----------------------------------------------------------------------------
(* The process stops anywhere and starts again *)

\* load_logs: the rows, the newest first, or nothing if they cannot be read
LoadLogs ==
    \/ logs' = Sorted(table) /\ UNCHANGED failed
    \/ ~failed /\ failed' = TRUE /\ logs' = <<>>

\* A new Log_Manager, and a new FreeRADIUSLogParser, which begins at the
\* beginning of the file and has seen nothing.
Restart ==
    /\ starts < MaxStarts
    /\ starts' = starts + 1
    /\ LoadLogs
    /\ position' = 0
    /\ unread' = <<>>
    /\ recent' = EmptyDict
    /\ made' = EmptyDict
    /\ at' = "sleep"
    /\ entry' = NoKey
    /\ UNCHANGED <<clock, freeradius, table, ids, lastRead>>

-----------------------------------------------------------------------------
(* The specification *)

\* The first start: init_db has created an empty auth_logs table.
Init ==
    /\ clock = 0
    /\ file = <<>> /\ written = 0 /\ truncated = FALSE
    /\ position = 0 /\ unread = <<>> /\ recent = EmptyDict
    /\ at = "sleep" /\ entry = NoKey
    /\ logs = <<>> /\ table = <<>>
    /\ made = EmptyDict /\ ids = 0 /\ lastRead = 0 /\ starts = 1 /\ failed = FALSE

Parse ==
    \/ ReadLines \/ SuppressLine \/ CreateLogEntry
    \/ RotateLogs \/ InsertLog \/ CleanUp

Next ==
    \/ Tick \/ (\E k \in Keys : Authenticate(k)) \/ RotateFile
    \/ Parse
    \/ Restart

Spec == Init /\ [][Next]_vars

\* _log_parser_thread loops for ever, and catches every exception.
FairSpec == Spec /\ WF_vars(Parse)

-----------------------------------------------------------------------------
(* Properties *)

Events == 1..MaxEvents
Times  == 0..(MaxTime + Shift)
Lines  == [n : Events, key : Keys, at : 0..MaxTime]
Log    == [id : 1..(MaxEvents * MaxStarts), key : Keys, time : Times]

\* The type invariant; no two entries of the list, or of the table, have one id.
TypeOK ==
    /\ clock \in 0..MaxTime
    /\ file \in Seq(Lines) /\ unread \in Seq(Lines)
    /\ written \in 0..MaxEvents /\ lastRead \in 0..written
    /\ position \in 0..MaxEvents
    /\ recent \in Dict(Keys, 0..MaxTime)
    /\ logs \in Seq(Log) /\ table \in Seq(Log)
    /\ \A list \in {logs, table} : \A i, j \in DOMAIN list :
            list[i].id = list[j].id => i = j
    /\ at \in {"sleep", "lines", "rotate", "insert"}
    /\ entry \in [key : Keys, at : 0..MaxTime] \cup {NoKey}
    /\ entry = NoKey <=> at \in {"sleep", "lines"}
    /\ ids \in 0..(MaxEvents * MaxStarts)
    /\ truncated \in BOOLEAN /\ failed \in BOOLEAN

\* "Deduplicates logs for the same MAC address within a time window": however
\* lines, sleeps and clean-ups alternate, the entries one process makes of one
\* MAC and outcome are at least a window apart.
EntriesAreSpaced ==
    [][\A k \in DOMAIN made \cap DOMAIN made' :
        made'[k] # made[k] => made'[k].at - made[k].at >= Window]_vars

\* While no entry is being made and SQLite has not failed, every entry of the
\* list is in the table, unchanged but for the date of the newest, and the
\* table has one row more at most, of an entry that the rotation dropped.
TableFollowsList ==
    at \in {"sleep", "lines"} /\ ~failed =>
        /\ \A i \in DOMAIN logs : \E j \in DOMAIN table :
                \/ table[j] = logs[i]
                \/ table[j].id = logs[i].id /\ logs[i].id = ids
        /\ Len(table) <= Len(logs) + 1

\* Once an entry is finished the list is within MAX_LOGS again, also when a
\* process that died between a save and the rotation has left more rows.
RotationBounds ==
    [][at = "insert" /\ at' = "lines" => Len(logs') <= MaxLogs]_vars

\* Every line is read at last, unless the file is rotated away: none is skipped
\* between two readings or left behind by one.
LinesAreRead == \A n \in Events : written >= n ~> (lastRead >= n \/ truncated)

=============================================================================
