------------------------------ MODULE LogView ------------------------------
(***************************************************************************)
(* The connection log (model/connection_log.c), a ring that the network    *)
(* thread and the UI thread write under a mutex, and the log panel         *)
(* (ui/log_panel.c) that shows its newest rows.                            *)
(*                                                                         *)
(* The panel reads the generation, the count and every row in critical     *)
(* sections of their own, so each is a step here and additions of the      *)
(* network thread fall between any two of them.  An entry is modelled by   *)
(* the generation it was added at.  logStep "idle" lies between two        *)
(* frames.  Bound: the generation stops at MaxGeneration.                  *)
(***************************************************************************)
EXTENDS Integers, Sequences

CONSTANTS
    LogCapacity,        \* CONN_LOG_CAPACITY
    LogVisibleRows,     \* LOG_VISIBLE_ROWS
    MaxGeneration       \* bound: additions and clears

ASSUME LogAssumption ==
    LogCapacity \in Nat \ {0} /\ LogVisibleRows \in Nat \ {0} /\ MaxGeneration \in Nat

VARIABLES
    entries, logHead, logCount, generation,     \* ConnectionLog
    log_panel_open,
    last_generation,                            \* of the rows in the cache, -1 at start
    rows_wanted, log_rows,                      \* the count read, the rows read: <<index, entry>>
    log_sel_anchor, log_sel_cursor, dragging,   \* logical indices, -1 = none
    logStep,                                    \* "idle" | "count" | "rows" | "input" | "copy"
    copy_next, copy_last, clipboard             \* log_copy_range; clipboard is its buffer

logRing == <<entries, logHead, logCount, generation>>
logCache == <<last_generation, rows_wanted, log_rows>>
logSel == <<log_sel_anchor, log_sel_cursor, dragging>>
logCopy == <<copy_next, copy_last, clipboard>>
logVars == <<logRing, log_panel_open, logCache, logSel, logStep, logCopy>>

LogInit ==
    /\ entries = [i \in 0..(LogCapacity - 1) |-> 0]
    /\ logHead = 0 /\ logCount = 0 /\ generation = 0
    /\ log_panel_open = TRUE
    /\ last_generation = -1 /\ rows_wanted = 0 /\ log_rows = <<>>
    /\ log_sel_anchor = -1 /\ log_sel_cursor = -1 /\ dragging = FALSE
    /\ logStep = "idle" /\ copy_next = 0 /\ copy_last = -1 /\ clipboard = <<>>

-----------------------------------------------------------------------------
(* The log *)

\* Any thread, at any moment.
connection_log_add ==
    /\ generation < MaxGeneration
    /\ generation' = generation + 1
    /\ entries' = [entries EXCEPT ![(logHead + logCount) % LogCapacity] = generation']
    /\ IF logCount = LogCapacity
       THEN logHead' = (logHead + 1) % LogCapacity /\ UNCHANGED logCount
       ELSE logCount' = logCount + 1 /\ UNCHANGED logHead
    /\ UNCHANGED <<log_panel_open, logCache, logSel, logStep, logCopy>>

\* The entry at a logical index below the count.
connection_log_get(i) == entries[(logHead + i) % LogCapacity]

connection_log_clear ==
    /\ generation < MaxGeneration
    /\ generation' = generation + 1 /\ logHead' = 0 /\ logCount' = 0
    /\ UNCHANGED entries

-----------------------------------------------------------------------------
(* One frame of the panel: refresh the cached rows, then handle the input *)

\* Reads the generation; a changed one makes the frame read all rows again.
LogFrame ==
    /\ logStep = "idle" /\ log_panel_open
    /\ last_generation' = generation
    /\ logStep' = IF generation = last_generation THEN "input" ELSE "count"
    /\ UNCHANGED <<logRing, log_panel_open, rows_wanted, log_rows, logSel, logCopy>>

ReadCount ==
    /\ logStep = "count" /\ logStep' = "rows"
    /\ rows_wanted' = logCount /\ log_rows' = <<>>
    /\ UNCHANGED <<logRing, log_panel_open, last_generation, logSel, logCopy>>

\* Row number Len(log_rows), newest first.  Only the UI thread clears the log, so that it
\* cannot shrink between the rows and the get succeeds.
ReadRow ==
    /\ logStep = "rows"
    /\ Len(log_rows) < rows_wanted /\ Len(log_rows) < LogVisibleRows
    /\ LET i == rows_wanted - 1 - Len(log_rows)
       IN  log_rows' = Append(log_rows, <<i, connection_log_get(i)>>)
    /\ UNCHANGED <<logRing, log_panel_open, last_generation, rows_wanted, logSel, logStep, logCopy>>

Mutant_RowsRead ==
    /\ logStep = "rows" /\ logStep' = "input"
    /\ (Len(log_rows) = rows_wanted \/ Len(log_rows) = LogVisibleRows)
    /\ last_generation' = generation
    /\ UNCHANGED <<logRing, log_panel_open, rows_wanted, log_rows, logSel, logCopy>>

RowsRead ==
    /\ logStep = "rows" /\ logStep' = "input"
    /\ (Len(log_rows) = rows_wanted \/ Len(log_rows) = LogVisibleRows)
    /\ UNCHANGED <<logRing, log_panel_open, logCache, logSel, logCopy>>

\* The rest of the frame: one input, of which the selection is the effect.
LogInput(anchor, cursor, drag) ==
    /\ logStep = "input" /\ logStep' = "idle"
    /\ log_sel_anchor' = anchor /\ log_sel_cursor' = cursor /\ dragging' = drag
    /\ UNCHANGED <<logRing, log_panel_open, logCache, logCopy>>

RowIndices == {log_rows[r][1] : r \in DOMAIN log_rows}

LogIdle(held) == LogInput(log_sel_anchor, log_sel_cursor, dragging /\ held)
ClickRow(i) == LogInput(i, i, TRUE)
ShiftClickRow(i) == log_sel_anchor >= 0 /\ LogInput(log_sel_anchor, i, TRUE)
DragRow(i) == dragging /\ LogInput(log_sel_anchor, i, TRUE)
ClickEmpty == LogInput(-1, -1, dragging)
SelectAllRows ==
    /\ log_rows # <<>>
    /\ LogInput(log_rows[Len(log_rows)][1], log_rows[1][1], dragging)
DropSelection == log_rows # <<>> /\ LogInput(-1, -1, dragging)

\* The Copy button or Ctrl+C: the selection, or everything on screen.
CopyLog ==
    /\ logStep = "input" /\ log_rows # <<>>
    /\ LET sel == log_sel_anchor >= 0 /\ log_sel_cursor >= 0
           a == IF sel THEN log_sel_anchor ELSE log_rows[Len(log_rows)][1]
           b == IF sel THEN log_sel_cursor ELSE log_rows[1][1]
       IN  copy_next' = (IF a < b THEN a ELSE b) /\ copy_last' = (IF a < b THEN b ELSE a)
    /\ clipboard' = <<>> /\ logStep' = "copy"
    /\ UNCHANGED <<logRing, log_panel_open, logCache, logSel>>

\* An index the log does not have is skipped.
CopyEntry ==
    /\ logStep = "copy" /\ copy_next <= copy_last
    /\ clipboard' = IF copy_next < logCount
                    THEN Append(clipboard, connection_log_get(copy_next)) ELSE clipboard
    /\ copy_next' = copy_next + 1
    /\ UNCHANGED <<logRing, log_panel_open, logCache, logSel, logStep, copy_last>>

\* The buffer is sized for the lines on screen; a longer selection is cut.
CopyDone ==
    /\ logStep = "copy" /\ (copy_next > copy_last \/ Len(clipboard) >= LogVisibleRows)
    /\ logStep' = "idle" /\ copy_next' = 0 /\ copy_last' = -1
    /\ UNCHANGED <<logRing, log_panel_open, logCache, logSel, clipboard>>

ClearLog ==
    /\ logStep = "input" /\ logStep' = "idle" /\ connection_log_clear
    /\ log_sel_anchor' = -1 /\ log_sel_cursor' = -1
    /\ UNCHANGED <<dragging, log_panel_open, logCache, logCopy>>

CloseLog ==
    /\ logStep = "input" /\ logStep' = "idle" /\ log_panel_open' = FALSE
    /\ UNCHANGED <<logRing, logCache, logSel, logCopy>>

\* Ctrl+L in the frame loop, before the panel is rendered.
ToggleLog ==
    /\ logStep = "idle" /\ log_panel_open' = ~log_panel_open
    /\ UNCHANGED <<logRing, logCache, logSel, logStep, logCopy>>

LogPanelStep ==
    \/ LogFrame \/ ReadCount \/ ReadRow \/ RowsRead
    \/ \E held \in BOOLEAN : LogIdle(held)
    \/ ClickEmpty \/ SelectAllRows \/ DropSelection
    \/ \E i \in RowIndices : ClickRow(i) \/ ShiftClickRow(i) \/ DragRow(i)
    \/ CopyLog \/ CopyEntry \/ CopyDone \/ ClearLog \/ CloseLog

LogNext == connection_log_add \/ ToggleLog \/ LogPanelStep

LogSpec == LogInit /\ [][LogNext]_logVars /\ WF_logVars(LogPanelStep)

-----------------------------------------------------------------------------
\* The rows a reader of the log should see: the newest, newest first.
NewestRows ==
    [r \in 1..(IF logCount < LogVisibleRows THEN logCount ELSE LogVisibleRows) |->
        <<logCount - r, connection_log_get(logCount - r)>>]

\* A cache that claims to be of the current generation is exactly the newest rows, although
\* the rows are read one by one while other threads add entries: reading the generation first
\* (log_panel.c:89) makes a torn read look old, never current.
LogViewMatches ==
    logStep \in {"idle", "input", "copy"} /\ last_generation = generation => log_rows = NewestRows

\* An open panel comes to show the log as it is.
LogCatchesUp == []<>(~log_panel_open \/ log_rows = NewestRows)
=============================================================================
