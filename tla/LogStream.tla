---------------------------- MODULE LogStream ----------------------------
(***************************************************************************)
(* A log in the web console: useLogStream, which reads it over a           *)
(* connection that may break (useEventStream is the same machine for the   *)
(* events of a pod), and useIncrementalFlatten with the list below it,     *)
(* which shows it with separators between days and lets lines be selected. *)
(*                                                                         *)
(* The service sends the whole log on every connection.  A line is parsed  *)
(* anew each time, so an entry is known by its run of the effect, its      *)
(* connection and its line: two entries are equal when they are one object.*)
(***************************************************************************)
EXTENDS Integers, Sequences

CONSTANTS
  DateOf,      \* the day of each line of the log
  MaxEntries,  \* maxEntries
  MaxRetries,  \* MAX_AUTO_RETRIES
  Queries,     \* the filters the user chooses from: the lines each lets pass
  MaxRuns,     \* BOUND: how often the stream is started
  MaxBreaks    \* BOUND: connections that break after they were made

ASSUME StreamAssumption ==
  /\ DateOf \in Seq(Nat \ {0}) /\ MaxEntries \in Nat \ {0} /\ {MaxRetries, MaxRuns, MaxBreaks} \subseteq Nat
  /\ \A q \in Queries : q \subseteq 1..Len(DateOf)

VARIABLES
  written, finished,    \* the log: its lines so far, and whether it will grow
  run, pc,              \* the run of the effect, and where its loop is
  phase,                \* the phase of the hook
  retries, conn, got,   \* failures in a row, connections of the run, lines read from the last
  aborted,              \* an older run has yet to hear that it was aborted
  breaks,
  pending, acc, shown,  \* pendingRef, entriesRef and the entries of the hook
  query,                \* the filter on the list
  seen, list,           \* what the list was last given, and what it made of that
  picked                \* the selection, with the entry the user meant

source     == <<written, finished>>
loop       == <<run, pc, phase, retries, conn, got, aborted, breaks>>
buffers    == <<pending, acc, shown>>
view       == <<query, seen, list, picked>>
streamVars == <<source, loop, buffers, view>>

Lines   == 1..Len(DateOf)
Running == {"fetching", "reading", "waiting"}
Newest(s)  == IF Len(s) > MaxEntries THEN SubSeq(s, Len(s) - MaxEntries + 1, Len(s)) ELSE s
Sent(m, n) == [i \in 1..(n - m) |-> [run |-> run, conn |-> conn, line |-> m + i]]

NoList   == [entries |-> <<>>, query |-> {}, items |-> <<>>, lastDate |-> 0]
NoChoice == [index |-> 0, entry |-> <<>>]

StreamInit ==
  /\ written = 0 /\ finished = FALSE
  /\ run = 0 /\ pc = "off" /\ phase = "idle" /\ retries = 0 /\ conn = 0 /\ got = 0
  /\ aborted = FALSE /\ breaks = 0
  /\ pending = <<>> /\ acc = <<>> /\ shown = <<>>
  /\ query \in Queries /\ seen = <<>> /\ list = NoList /\ picked = NoChoice

-----------------------------------------------------------------------------
(***************************************************************************)
(* The log                                                                 *)
(***************************************************************************)
WriteLine ==
  /\ ~finished /\ written < Len(DateOf) /\ written' = written + 1
  /\ UNCHANGED <<finished, loop, buffers, view>>

FinishLog ==
  /\ ~finished /\ finished' = TRUE
  /\ UNCHANGED <<written, loop, buffers, view>>

-----------------------------------------------------------------------------
(***************************************************************************)
(* The effect of the hook                                                  *)
(***************************************************************************)
\* The effect runs: mounted, enabled, given another log or restarted.
Start ==
  /\ run < MaxRuns /\ run' = run + 1 /\ aborted' = (aborted \/ pc \in Running)
  /\ pc' = "fetching" /\ phase' = "connecting" /\ retries' = 0 /\ conn' = 0 /\ got' = 0
  /\ pending' = <<>> /\ acc' = <<>> /\ shown' = <<>>
  /\ UNCHANGED <<source, breaks, view>>

\* Disabled: the entries stay, and the consumer is told "idle".
Disable ==
  /\ pc # "off" /\ pc' = "off" /\ aborted' = (aborted \/ pc \in Running)
  /\ UNCHANGED <<source, run, phase, retries, conn, got, breaks, buffers, view>>

\* FAULT: a run that is told to stop says "idle" for the hook.
HearAbortLoudly ==
  /\ aborted /\ aborted' = FALSE /\ phase' = "idle"
  /\ UNCHANGED <<source, run, pc, retries, conn, got, breaks, buffers, view>>

\* isActive: an aborted run has no say in the phase.
HearAbort ==
  /\ aborted /\ aborted' = FALSE
  /\ UNCHANGED <<source, run, pc, phase, retries, conn, got, breaks, buffers, view>>

\* FAULT: what was read before the connection broke is kept.
ConnectedOnTop ==
  /\ pc = "fetching" /\ ~aborted /\ pc' = "reading" /\ phase' = "streaming"
  /\ retries' = 0 /\ conn' = conn + 1 /\ got' = 0
  /\ UNCHANGED <<source, run, aborted, breaks, buffers, view>>

\* A new connection starts from nothing, and leaves what is on show.
Connected ==
  /\ pc = "fetching" /\ ~aborted /\ pc' = "reading" /\ phase' = "streaming"
  /\ retries' = 0 /\ conn' = conn + 1 /\ got' = 0 /\ pending' = <<>> /\ acc' = <<>>
  /\ UNCHANGED <<source, run, aborted, breaks, shown, view>>

Fail(transient) ==
  /\ IF transient /\ retries < MaxRetries
     THEN pc' = "waiting" /\ phase' = "reconnecting" /\ retries' = retries + 1
     ELSE pc' = "over" /\ phase' = "error" /\ UNCHANGED retries
  /\ UNCHANGED <<source, run, conn, got, aborted, buffers, view>>

FetchFails(transient) == pc = "fetching" /\ ~aborted /\ Fail(transient) /\ UNCHANGED breaks

StreamBreaks(transient) ==
  /\ pc = "reading" /\ breaks < MaxBreaks /\ breaks' = breaks + 1 /\ Fail(transient)

\* FAULT: the loop is left instead of continued.
DelayEndsTheLoop ==
  /\ pc = "waiting" /\ pc' = "over"
  /\ UNCHANGED <<source, run, phase, retries, conn, got, aborted, breaks, buffers, view>>

DelayEnds ==
  /\ pc = "waiting" /\ pc' = "fetching"
  /\ UNCHANGED <<source, run, phase, retries, conn, got, aborted, breaks, buffers, view>>

Receive(n) == pending' = Newest(pending \o Sent(got, n)) /\ got' = n

\* A chunk of whole lines; the rest of it waits in a buffer for its newline.
ReadChunk(n) ==
  /\ pc = "reading" /\ n \in (got + 1)..written /\ Receive(n)
  /\ UNCHANGED <<source, run, pc, phase, retries, conn, aborted, breaks, acc, shown, view>>

\* FAULT: the last line is lost when the log does not end in a newline.
StreamDoneEarly ==
  /\ pc = "reading" /\ finished /\ written - got <= 1
  /\ pc' = "over" /\ phase' = "complete"
  /\ UNCHANGED <<source, run, retries, conn, got, aborted, breaks, buffers, view>>

\* The end of the log: the buffer may hold a last line without a newline.
StreamDone ==
  /\ pc = "reading" /\ finished /\ written - got <= 1 /\ Receive(written)
  /\ pc' = "over" /\ phase' = "complete"
  /\ UNCHANGED <<source, run, retries, conn, aborted, breaks, acc, shown, view>>

\* flushPending, in an animation frame.
Flush ==
  LET next == Newest(acc \o pending) IN
  /\ pending # <<>> /\ pending' = <<>> /\ acc' = next /\ shown' = next
  /\ UNCHANGED <<source, loop, view>>

-----------------------------------------------------------------------------
(***************************************************************************)
(* The list                                                                *)
(***************************************************************************)
Filtered(es, q) ==
  LET passed[n \in 0..Len(es)] ==
        IF n = 0 THEN <<>>
        ELSE IF es[n].line \in q THEN Append(passed[n - 1], es[n]) ELSE passed[n - 1]
  IN  passed[Len(es)]

\* One entry more, with a separator before it when its day is another.
AddEntry(flat, e) ==
  LET date == DateOf[e.line] IN
  [items |-> (IF date = flat.lastDate THEN flat.items ELSE Append(flat.items, <<"separator", date>>))
             \o <<<<"entry", e>>>>,
   lastDate |-> date]
AppendFlatten(flat, es) ==
  LET after[n \in 0..Len(es)] == IF n = 0 THEN flat ELSE AddEntry(after[n - 1], es[n])
  IN  after[Len(es)]
FullFlatten(es)         == AppendFlatten([items |-> <<>>, lastDate |-> 0], es)

\* FAULT: a list that grew and starts as before was appended to.
ClassifyByFirst(old, new, oldQuery, newQuery) ==
  LET m == Len(old) IN
  IF new = old THEN "unchanged"
  ELSE IF m > 0 /\ Len(new) > m /\ new[1] = old[1] THEN "append" ELSE "replace"

\* classifyEntriesChange: it looks at the two ends of the old list, not through it.
Classify(old, new, oldQuery, newQuery) ==
  LET m == Len(old) IN
  IF oldQuery # newQuery THEN "replace"
  ELSE IF Len(new) = m /\ (m = 0 \/ (new[1] = old[1] /\ new[m] = old[m])) THEN "unchanged"
  ELSE IF m > 0 /\ Len(new) > m /\ new[1] = old[1] /\ new[m] = old[m] THEN "append"
  ELSE "replace"

Flattened(es, change) ==
  IF change = "append"
  THEN AppendFlatten([items |-> list.items, lastDate |-> list.lastDate],
                     SubSeq(es, Len(list.entries) + 1, Len(es)))
  ELSE FullFlatten(es)

\* FAULT: a replacement that is no shorter is taken for the list going on.
ResetsWhenShorter(es, change) == change = "replace" /\ Len(es) < Len(list.entries)

\* resetCount grows, and every selection made before is void.
Resets(es, change) == change = "replace" /\ list.entries # <<>>

\* The list is rendered with the entries and the filter of one moment, sooner or later.
Render ==
  LET es     == Filtered(shown, query)
      change == Classify(list.entries, es, list.query, query)
      flat   == Flattened(es, change)
  IN
  /\ seen # es \/ list.query # query
  /\ seen' = es
  /\ list' = IF change = "unchanged" THEN list
             ELSE [entries |-> es, query |-> query, items |-> flat.items,
                   lastDate |-> flat.lastDate]
  /\ picked' = IF Resets(es, change) THEN NoChoice ELSE picked
  /\ UNCHANGED <<source, loop, buffers, query>>

SetQuery(q) ==
  /\ q # query /\ query' = q
  /\ UNCHANGED <<source, loop, buffers, seen, list, picked>>

\* One end of a selection.  It is kept as an index, good for as long as resetCount,
\* its epoch, stays.
Select(i) ==
  /\ i \in DOMAIN seen
  /\ picked' = [index |-> i, entry |-> seen[i]]
  /\ UNCHANGED <<source, loop, buffers, query, seen, list>>

-----------------------------------------------------------------------------
StreamNext ==
  \/ WriteLine \/ FinishLog
  \/ Start \/ Disable \/ HearAbort \/ Connected \/ DelayEnds
  \/ \E transient \in BOOLEAN : FetchFails(transient) \/ StreamBreaks(transient)
  \/ \E n \in Lines : ReadChunk(n)
  \/ StreamDone \/ Flush \/ Render
  \/ \E q \in Queries : SetQuery(q)
  \/ \E i \in 1..MaxEntries : Select(i)

StreamSpec == StreamInit /\ [][StreamNext]_streamVars

\* A fetch is answered or fails, the service sends what it has and ends a finished
\* log, delays end, frames are painted.  Nothing is assumed of the task or the user.
StreamProgress ==
  \/ HearAbort \/ Connected \/ (\E transient \in BOOLEAN : FetchFails(transient))
  \/ DelayEnds \/ (\E n \in Lines : ReadChunk(n)) \/ StreamDone
StreamFairSpec ==
  StreamSpec /\ WF_streamVars(StreamProgress) /\ WF_streamVars(Flush) /\ WF_streamVars(Render)

-----------------------------------------------------------------------------
(***************************************************************************)
(* Properties                                                              *)
(***************************************************************************)
Entries == [run : 1..MaxRuns, conn : 1..(MaxBreaks + 1), line : Lines]
Short(s) == Len(s) <= MaxEntries /\ \A i \in DOMAIN s : s[i] \in Entries

\* The buffers keep their bound, and the phase the user reads is the one of the
\* run that is active, whatever older runs report.
StreamTypeOK ==
  /\ written \in 0..Len(DateOf) /\ finished \in BOOLEAN
  /\ run \in 0..MaxRuns /\ pc \in Running \cup {"off", "over"}
  /\ retries \in 0..MaxRetries /\ conn \in 0..(MaxBreaks + 1) /\ got \in 0..written
  /\ aborted \in BOOLEAN /\ breaks \in 0..MaxBreaks
  /\ Short(pending) /\ Short(acc) /\ Short(shown) /\ Short(seen)
  /\ query \in Queries /\ picked.index \in 0..MaxEntries
  /\ pc = "fetching" => phase \in {"connecting", "reconnecting"}
  /\ pc = "reading" <=> pc # "off" /\ phase = "streaming"
  /\ pc = "waiting" => phase = "reconnecting"
  /\ pc = "over" => phase \in {"complete", "error"}

\* The entries on show are a piece of one connection's log: no line is shown
\* twice, none is missing in between, and none is of a log that was left.
ShownIsOnePiece ==
  \A i \in DOMAIN shown :
    /\ shown[i].run = run /\ shown[i].conn = shown[1].conn
    /\ shown[i].line = shown[1].line + i - 1

\* When the stream says it is complete and the last frame was painted, the newest
\* lines of the log are on show.
CompleteShowsAll ==
  pc = "over" /\ phase = "complete" /\ pending = <<>> =>
    [i \in DOMAIN shown |-> shown[i].line] = Newest([i \in 1..written |-> i])

\* The list that is patched is the one that would be built anew.
ListIsFull == list.items = FullFlatten(seen).items

\* A selection the list still takes for valid marks the line the user selected.
SelectionStaysPut ==
  picked.index # 0 =>
    picked.index \in DOMAIN seen /\ seen[picked.index] = picked.entry

\* A log that is over is shown to its end, unless the user turns the stream off or
\* is told of an error.
ShowsInTheEnd ==
  finished /\ pc \in Running ~>
    \/ pc = "off"
    \/ pc = "over" /\ phase = "error"
    \/ /\ pc = "over" /\ phase = "complete" /\ pending = <<>>
       /\ seen = Filtered(shown, query)

=============================================================================
