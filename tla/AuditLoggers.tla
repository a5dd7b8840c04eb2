---------------------------- MODULE AuditLoggers ----------------------------
(***************************************************************************)
(* The two AuditLoggers: FileAuditLogger, a JSONL file which the processes *)
(* of a deployment append to, each under a lock of its own, and            *)
(* SqliteAuditLogger, a table.  query_logs reads either in order of        *)
(* arrival, filtered and one page at a time.                               *)
(*                                                                         *)
(* An append to the file is visible in parts to other processes, and an    *)
(* append that fails half-way leaves its part: the next line is then glued *)
(* to it.                                                                  *)
(***************************************************************************)
EXTENDS Naturals, SequencesExt, Ranking

CONSTANTS Events, Filters

ASSUME FilterAssumption ==
  \A f \in Filters : DOMAIN f = {"type", "api_key_id"}

VARIABLE log   \* lines: the log; torn: it ends inside a line; writer: whose

Free == {}
Garbage == [type |-> "garbage", api_key_id |-> "none", by |-> 0]

LogInit == log = [lines |-> <<>>, torn |-> FALSE, writer |-> Free]

Torn == log.torn \/ \E i \in 1..Len(log.lines) : log.lines[i] = Garbage

\* _append to the file: write(line + "\n") begins and ends.  The kernel lets
\* one process append at a time, the lock one thread of it.
BeginAppend(p) ==
  /\ log.writer = Free
  /\ log' = [log EXCEPT !.writer = {p}]

EndAppend(e) ==
  log' = [lines |-> Append(log.lines, IF log.torn THEN Garbage ELSE e),
          torn |-> FALSE, writer |-> Free]

\* The write fails (a full disk) or the process dies, with part of the line
\* written or none of it.
BreakAppend ==
  \E torn \in {log.torn, TRUE} : log' = [log EXCEPT !.torn = torn, !.writer = Free]

\* _append to the table: one transaction.
InsertEvent(e) == log' = [log EXCEPT !.lines = Append(@, e)]

\* _matches and the where clauses: a filter that is not set lets all pass.
Passes(filter, value) == filter \in {"any", value}
Matches(e, f) ==
  /\ Passes(f.type, e.type)
  /\ Passes(f.api_key_id, e.api_key_id)

Page(s, offset, limit) ==
  SubSeq(s, offset + 1, IF offset + limit < Len(s) THEN offset + limit ELSE Len(s))

MatchingLines(f) ==
  AtPositions(log.lines, {i \in DOMAIN log.lines : Matches(log.lines[i], f)})

\* Mutation: the newest events come first.
QueryNewestFirst(f, offset, limit) ==
  Page(Reverse(MatchingLines(f)), offset, limit)

\* query_logs: in order of arrival, then offset and limit.
QueryLogs(f, offset, limit) == Page(MatchingLines(f), offset, limit)

\* Mutation: query_logs takes no lock.
ReadsUnlocked(p) == TRUE

\* query_logs of the file, in process p: its lock keeps its own appends out.
\* json.loads raises on a fragment, which a reader surely meets in a torn
\* file, and perhaps where another process is writing.
MayReadFile(p) == log.writer # {p}
MayMeetFragment == Torn \/ log.writer # Free
=============================================================================
