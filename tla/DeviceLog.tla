------------------------------ MODULE DeviceLog ------------------------------
(* The log of a device on its way to the disk and back.  A stream's process   *)
(* prints lines; a reader makes batches of them, which a thread of the stream *)
(* appends to the segment file and then enters in the metadata table.  The    *)
(* commands of the window run one after another: start, stop, retention,      *)
(* clearing and export, which reads the table page by page.                   *)
(*                                                                            *)
(* Lines are numbered as they are printed; a line takes one byte.             *)
EXTENDS Naturals, FiniteSets, SequencesExt

CONSTANTS MaxBatch,       \* MAX_BATCH_LINES
          QueueCapacity,  \* WRITER_QUEUE_CAPACITY
          PageBatches,    \* QUERY_BATCH_PAGE_SIZE
          Limit,          \* lines of a response
          Window,         \* time_range_ms: how far a query looks back
          WritesMayFail,  \* whether the append to a segment can fail
          MaxStreams,     \* bound: streams of one run of the program
          MaxLines,       \* bound: lines printed
          MaxTicks,       \* bound: times the clock goes on
          MaxRestarts,    \* bound: ends of the program
          MaxUpkeep,      \* bound: retentions and clearings
          MaxExports      \* bound: exports

VARIABLES next,      \* streams started in this run of the program
          running,   \* streams whose process runs
          listed,    \* streams in the map of the runtime
          pipe,      \* printed and not yet in a batch
          handing,   \* the batch the reader hands over
          queue,     \* batches before the writer
          job,       \* what the writer appended and has yet to enter
          writer,    \* the writer's open file and connection
          segment,   \* the segment files
          rows,      \* the metadata table
          clock,     \* the time of day
          stats,     \* counters of every stream
          command,   \* what the window's thread does
          printed, restarts, upkeep, exports   \* counters of the bounds

vars == <<next, running, listed, pipe, handing, queue, job, writer, segment, rows, clock, stats,
          command, printed, restarts, upkeep, exports>>

streams == <<next, running, listed>>
inbound == <<pipe, handing, queue, job, writer>>
stored  == <<segment, rows, clock>>
counts  == <<printed, restarts, upkeep, exports>>

Streams == 1..MaxStreams
Gone    == <<0>>                   \* no such file
NoJob   == [lines |-> <<>>, off |-> 0, first |-> 0]
Closed  == [linked |-> FALSE, off |-> 0, seq |-> 1, entered |-> FALSE]
Idle    == [at |-> "idle"]
NoStats == [ingested |-> 0, persisted |-> 0, dropped |-> 0, pending |-> 0]

Init ==
    /\ next = 0 /\ running = {} /\ listed = {}
    /\ pipe = [s \in Streams |-> <<>>] /\ handing = [s \in Streams |-> <<>>]
    /\ queue = [s \in Streams |-> <<>>] /\ job = [s \in Streams |-> NoJob]
    /\ writer = [s \in Streams |-> Closed]
    /\ segment = [s \in Streams |-> Gone] /\ rows = {} /\ clock = 0
    /\ stats = [s \in Streams |-> NoStats]
    /\ command = Idle
    /\ printed = 0 /\ restarts = 0 /\ upkeep = 0 /\ exports = 0

-----------------------------------------------------------------------------
(* The reader and the writer of a stream. *)

Emit(s) ==
    /\ s \in running /\ printed < MaxLines
    /\ printed' = printed + 1
    /\ pipe' = [pipe EXCEPT ![s] = Append(@, printed')]
    /\ UNCHANGED <<streams, handing, queue, job, writer, stored, stats, command, restarts, upkeep,
                   exports>>

Tick ==
    /\ clock < MaxTicks
    /\ clock' = clock + 1
    /\ UNCHANGED <<streams, inbound, segment, rows, stats, command, counts>>

Exit(s) ==
    /\ s \in running
    /\ running' = running \ {s}
    /\ UNCHANGED <<next, listed, inbound, stored, stats, command, counts>>

(* A batch is full, or nothing came for a while; what is printed before the    *)
(* end is read after it.                                                       *)
Flush(s) ==
    /\ handing[s] = <<>> /\ pipe[s] # <<>>
    /\ \E n \in 1..MaxBatch :
          /\ n <= Len(pipe[s])
          /\ handing' = [handing EXCEPT ![s] = SubSeq(pipe[s], 1, n)]
          /\ pipe' = [pipe EXCEPT ![s] = SubSeq(@, n + 1, Len(@))]
          /\ stats' = [stats EXCEPT ![s].ingested = @ + n, ![s].pending = @ + 1]
    /\ UNCHANGED <<streams, queue, job, writer, stored, command, counts>>

(* send blocks while the queue is full. *)
Send(s) ==
    /\ handing[s] # <<>> /\ Len(queue[s]) < QueueCapacity
    /\ queue' = [queue EXCEPT ![s] = Append(@, handing[s])]
    /\ handing' = [handing EXCEPT ![s] = <<>>]
    /\ UNCHANGED <<streams, pipe, job, writer, stored, stats, command, counts>>

Settled(s, n, outcome) ==
    stats' = [stats EXCEPT ![s][outcome] = @ + n,
                           ![s].pending = IF @ = 0 THEN 0 ELSE @ - 1]

(* What an unlinked file gets is nobody's. *)
Grown(s, lines) ==
    segment' = IF writer[s].linked THEN [segment EXCEPT ![s] = @ \o lines] ELSE segment

AppendLines(s) ==
    /\ job[s] = NoJob /\ queue[s] # <<>>
    /\ LET lines == Head(queue[s]) IN
          /\ Grown(s, lines)
          /\ job' = [job EXCEPT ![s] = [lines |-> lines, off |-> writer[s].off,
                                        first |-> writer[s].seq]]
          /\ writer' = [writer EXCEPT ![s].off = @ + Len(lines), ![s].seq = @ + Len(lines)]
    /\ queue' = [queue EXCEPT ![s] = Tail(@)]
    /\ UNCHANGED <<streams, pipe, handing, rows, clock, stats, command, counts>>

(* Some of the lines are in the file, and the writer does not know. *)
AppendFails(s) ==
    /\ WritesMayFail
    /\ job[s] = NoJob /\ queue[s] # <<>>
    /\ \E n \in 0..(Len(Head(queue[s])) - 1) : Grown(s, SubSeq(Head(queue[s]), 1, n))
    /\ queue' = [queue EXCEPT ![s] = Tail(@)]
    /\ Settled(s, Len(Head(queue[s])), "dropped")
    /\ UNCHANGED <<streams, pipe, handing, job, writer, rows, clock, command, counts>>

(* insert_batch, which enters nothing that can be found again once the table  *)
(* was removed under the connection.                                          *)
Insert(s) ==
    /\ job[s] # NoJob
    /\ rows' = IF writer[s].entered
               THEN rows \cup {[stream |-> s, at |-> clock, first |-> job[s].first,
                                off |-> job[s].off, lines |-> job[s].lines]}
               ELSE rows
    /\ Settled(s, Len(job[s].lines), "persisted")
    /\ job' = [job EXCEPT ![s] = NoJob]
    /\ UNCHANGED <<streams, pipe, handing, queue, writer, segment, clock, command, counts>>

(* Mutant: the batch is not one less before the writer. *)
InsertFailsUncounted(s) ==
    /\ job[s] # NoJob
    /\ stats' = [stats EXCEPT ![s].dropped = @ + Len(job[s].lines)]
    /\ job' = [job EXCEPT ![s] = NoJob]
    /\ UNCHANGED <<streams, pipe, handing, queue, writer, stored, command, counts>>

InsertFails(s) ==
    /\ job[s] # NoJob
    /\ Settled(s, Len(job[s].lines), "dropped")
    /\ job' = [job EXCEPT ![s] = NoJob]
    /\ UNCHANGED <<streams, pipe, handing, queue, writer, stored, command, counts>>

-----------------------------------------------------------------------------
(* Commands. *)

Opened(s) == [segment EXCEPT ![s] = IF @ = Gone THEN <<>> ELSE @]

Start ==
    /\ command = Idle /\ next < MaxStreams
    /\ next' = next + 1
    /\ segment' = Opened(next')
    /\ writer' = [writer EXCEPT ![next'] = [linked |-> TRUE, off |-> Len(segment'[next']),
                                            seq |-> 1, entered |-> TRUE]]
    /\ running' = running \cup {next'} /\ listed' = listed \cup {next'}
    /\ UNCHANGED <<pipe, handing, queue, job, rows, clock, stats, command, counts>>

(* The number is taken, the process cannot be started or the file or the      *)
(* table cannot be opened.                                                    *)
StartFails ==
    /\ command = Idle /\ next < MaxStreams
    /\ next' = next + 1
    /\ segment' \in {segment, Opened(next')}
    /\ UNCHANGED <<running, listed, inbound, rows, clock, stats, command, counts>>

Stop(s) ==
    /\ command = Idle /\ s \in listed
    /\ listed' = listed \ {s} /\ running' = running \ {s}
    /\ UNCHANGED <<next, inbound, stored, stats, command, counts>>

Present == {s \in Streams : segment[s] # Gone}

Refuse ==
    /\ command = Idle /\ listed # {} /\ upkeep < MaxUpkeep
    /\ upkeep' = upkeep + 1
    /\ command' = [at |-> "refused"]
    /\ UNCHANGED <<streams, inbound, stored, stats, printed, restarts, exports>>

(* apply_device_log_storage_retention: the oldest files go, then their rows.  *)
Retain ==
    /\ command = Idle /\ listed = {} /\ upkeep < MaxUpkeep
    /\ upkeep' = upkeep + 1
    /\ \E gone \in (SUBSET Present) \ {{}} :
          /\ segment' = [s \in Streams |-> IF s \in gone THEN Gone ELSE segment[s]]
          /\ writer' = [s \in Streams |-> IF s \in gone THEN [writer[s] EXCEPT !.linked = FALSE]
                                          ELSE writer[s]]
          /\ command' = [at |-> "retained", gone |-> gone]
    /\ UNCHANGED <<streams, pipe, handing, queue, job, rows, clock, stats, printed, restarts,
                   exports>>

Without(gone) == {r \in rows : r.stream \notin gone}

ForgetRows ==
    /\ command.at = "retained"
    /\ rows' = Without(command.gone)
    /\ command' = Idle
    /\ UNCHANGED <<streams, inbound, segment, clock, stats, counts>>

(* The table is busy: the rows stay, without their files. *)
ForgetFails ==
    /\ command.at = "retained"
    /\ command' = Idle
    /\ UNCHANGED <<streams, inbound, stored, stats, counts>>

Clear ==
    /\ command = Idle /\ listed = {} /\ upkeep < MaxUpkeep
    /\ upkeep' = upkeep + 1
    /\ segment' = [s \in Streams |-> Gone] /\ rows' = {}
    /\ writer' = [s \in Streams |-> [writer[s] EXCEPT !.linked = FALSE, !.entered = FALSE]]
    /\ UNCHANGED <<streams, pipe, handing, queue, job, clock, stats, command, printed, restarts,
                   exports>>

Answered ==
    /\ command.at \in {"refused", "exported", "stalled"}
    /\ command' = Idle
    /\ UNCHANGED <<streams, inbound, stored, stats, counts>>

-----------------------------------------------------------------------------
(* Export: queries until one has no next cursor.  Each looks back from its    *)
(* own time.                                                                  *)

Intact(r) == segment[r.stream] # Gone /\ r.off + Len(r.lines) <= Len(segment[r.stream])

(* What the i-th line of a row reads as: <<sequence number, line>>, by the     *)
(* file as it is.                                                              *)
Numbered(r, i) == <<r.first + i - 1, segment[r.stream][r.off + i]>>

Query(s, cursor, found) ==
    [at |-> "query", stream |-> s, cursor |-> cursor, now |-> clock, offset |-> 0,
     matched |-> <<>>, orphans |-> {}, found |-> found,
     \* The rows whose lines are on the disk when the export begins.
     due |-> IF found = <<>> /\ cursor = 0 THEN {r \in rows : r.stream = s /\ Intact(r)}
             ELSE command.due]

Export(s) ==
    /\ command = Idle /\ exports < MaxExports /\ s \in 1..next
    /\ exports' = exports + 1
    /\ command' = Query(s, 0, <<>>)
    /\ UNCHANGED <<streams, inbound, stored, stats, printed, restarts, upkeep>>

(* Rows alike in both are of two runs of the program; any order will do.      *)
Newer(q, r) == \/ q.at > r.at
               \/ q.at = r.at /\ q.first > r.first
               \/ q.at = r.at /\ q.first = r.first /\ Head(q.lines) > Head(r.lines)

(* The start of normalize_query_time_range; no row is older than the program  *)
(* counts.                                                                    *)
Recent(r) == r.at + Window >= command.now

Mine     == {r \in rows : r.stream = command.stream /\ r.at <= command.now /\ Recent(r)}
Place(r) == Cardinality({q \in Mine : Newer(q, r)})
Page     == {r \in Mine : Place(r) \in command.offset..(command.offset + PageBatches - 1)}

(* Mutant: a batch that reaches the cursor is left out. *)
ExcludedWhole(r) == command.cursor # 0 /\ r.first + Len(r.lines) > command.cursor

(* batch_excluded_by_cursor; no cursor is 0. *)
Excluded(r) == command.cursor # 0 /\ r.first >= command.cursor

InScope(n) == command.cursor = 0 \/ n < command.cursor

(* The lines of a page that are looked at, as <<row, index>>, *)
Scanned(page) ==
    {x \in UNION {{r} \X (1..Len(r.lines)) : r \in {q \in page : ~Excluded(q) /\ Intact(q)}} :
        InScope(Numbered(x[1], x[2])[1])}

Sooner(x, y) == Newer(x[1], y[1]) \/ (x[1] = y[1] /\ x[2] > y[2])

(* and their order, newest first. *)
Candidates(page) ==
    LET lines    == Scanned(page)
        place(x) == Cardinality({y \in lines : Sooner(y, x)})
    IN  [n \in 1..Cardinality(lines) |-> CHOOSE x \in lines : place(x) = n - 1]

Orphaned(page) == {r.stream : r \in {q \in page : ~Excluded(q) /\ ~Intact(q)}}

Seqs(matched) == {x[1] : x \in ToSet(matched)}

(* response_from_matches, and what the export does with it; last is the number *)
(* of the last line looked at, if the deadline ended the query.                *)
Respond(matched, orphans, last) ==
    LET cursor == IF Len(matched) >= Limit THEN Min(Seqs(matched)) ELSE last
        found  == command.found \o matched
        done   == [at |-> "exported", found |-> found, due |-> command.due, now |-> command.now]
    IN  /\ rows' = Without(orphans)
        /\ command' = IF cursor = 0 THEN done
                      ELSE IF cursor = command.cursor THEN [at |-> "stalled"]
                      ELSE Query(command.stream, cursor, found)

QueryPage ==
    /\ command.at = "query"
    /\ LET page       == Page
           lines      == Candidates(page)
           room       == Limit - Len(command.matched)
           taken(n)   == command.matched \o [k \in 1..n |-> Numbered(lines[k][1], lines[k][2])]
           \* What comes after the n-th line is not looked at.
           orphans(n) == command.orphans
                           \cup Orphaned({r \in page : ~Newer(lines[n][1], r)})
       IN  \/ /\ page = {}
              /\ Respond(command.matched, command.orphans, 0)
           \/ /\ Len(lines) >= room
              /\ Respond(taken(room), orphans(room), 0)
           \/ \E n \in 1..Len(lines) :   \* the deadline
              /\ n < room
              /\ Respond(taken(n), orphans(n), taken(n)[Len(command.matched) + n][1])
           \/ /\ page # {} /\ Len(lines) < room
              /\ command' = [command EXCEPT !.matched = taken(Len(lines)),
                                            !.orphans = @ \cup Orphaned(page),
                                            !.offset  = @ + Cardinality(page)]
              /\ UNCHANGED rows
    /\ UNCHANGED <<streams, inbound, segment, clock, stats, counts>>

(* The program ends and is started again; its streams are numbered anew.      *)
Restart ==
    /\ restarts < MaxRestarts
    /\ restarts' = restarts + 1
    /\ next' = 0 /\ running' = {} /\ listed' = {}
    /\ pipe' = [s \in Streams |-> <<>>] /\ handing' = [s \in Streams |-> <<>>]
    /\ queue' = [s \in Streams |-> <<>>] /\ job' = [s \in Streams |-> NoJob]
    /\ writer' = [s \in Streams |-> Closed]
    /\ stats' = [s \in Streams |-> NoStats]
    /\ command' = Idle
    /\ UNCHANGED <<stored, printed, upkeep, exports>>

Reader(s)  == Flush(s) \/ Send(s)
Writer(s)  == AppendLines(s) \/ AppendFails(s) \/ Insert(s) \/ InsertFails(s)
Process(s) == Emit(s) \/ Exit(s)
Commands   == \/ Start \/ StartFails \/ Refuse \/ Retain \/ ForgetRows \/ ForgetFails \/ Clear
              \/ QueryPage \/ Answered
              \/ \E s \in Streams : Stop(s) \/ Export(s)

Next ==
    \/ \E s \in Streams : Process(s) \/ Reader(s) \/ Writer(s)
    \/ Commands \/ Restart \/ Tick

Spec == Init /\ [][Next]_vars

-----------------------------------------------------------------------------
InFlight(s) == handing[s] \o FlattenSeq(queue[s]) \o job[s].lines

(* The counters of a stream account for every line its reader took            *)
(* (record_ingested, record_persisted, record_drop), through every failure.   *)
EveryLineCounted ==
    \A s \in Streams :
        /\ stats[s].ingested = stats[s].persisted + stats[s].dropped + Len(InFlight(s))
        /\ stats[s].pending = Len(queue[s]) + (IF handing[s] = <<>> THEN 0 ELSE 1)
                                            + (IF job[s] = NoJob THEN 0 ELSE 1)

(* An export that ends has every line that was on the disk when it began and  *)
(* that its last page still looks back to, though its pages end at a limit or  *)
(* a deadline in the middle of a batch, new batches are entered meanwhile and  *)
(* old ones slide out of the window (export_query_pages_to_writer).            *)
ExportComplete ==
    command.at = "exported" =>
       \A r \in command.due :
          Recent(r) => ToSet(r.lines) \subseteq {x[2] : x \in ToSet(command.found)}
=============================================================================
