---------------------------- MODULE BrowserStore ----------------------------
(***************************************************************************)
(* The browser store (src/internal/storage/browser_js.go): an IndexedDB    *)
(* database per wallet with a table of records and the number of the next  *)
(* one, guarded by a Web Lock.  Tabs open it, append and clear in          *)
(* transactions of strict durability; a tab may be closed at any moment.   *)
(***************************************************************************)
EXTENDS FileStore

CONSTANT Tabs   \* pages of this program in one browser

VARIABLES
    rows,       \* the records table
    next,       \* the number of the next record
    webLock,    \* the tab that holds the Web Lock, if any
    tab,        \* tab[t]: what tab t is doing
    confirmed   \* what appends have acknowledged since the store was cleared

browserVars == <<rows, next, webLock, tab, confirmed>>

Closed == [op |-> "closed", live |-> 0, failed |-> FALSE, record |-> None]

BrowserInit ==
    /\ rows = Empty /\ next = 0
    /\ webLock = {}
    /\ tab = [t \in Tabs |-> Closed]
    /\ confirmed = <<>>

Show(t, state) == tab' = [tab EXCEPT ![t] = state]

\* Load compares the keys with 0, 1, 2, ... and their number with the stored one.
Loads == Complete(rows) /\ Count(rows) = next

\* The lock is requested with ifAvailable: it is granted at once or not at all.
OpenTab(t) ==
    /\ tab[t].op = "closed" /\ webLock = {}
    /\ webLock' = IF Loads THEN {t} ELSE {}
    /\ Show(t, IF Loads THEN [Closed EXCEPT !.op = "open", !.live = next] ELSE Closed)
    /\ UNCHANGED <<rows, next, confirmed>>

\* The caller of Append passes the number of records it knows.
BeginTransaction(t, r) ==
    /\ tab[t].op = "open" /\ ~tab[t].failed /\ tab[t].live < MaxRecords
    /\ Show(t, [tab[t] EXCEPT !.op = "appending", !.record = r])
    /\ UNCHANGED <<rows, next, webLock, confirmed>>

\* The database commits all of a transaction, in which the index is compared and the
\* record added, never put over another one.
CommitAppend(t) ==
    /\ tab[t].op = "appending" /\ next = tab[t].live /\ rows[next] = None
    /\ rows' = [rows EXCEPT ![next] = tab[t].record]
    /\ next' = next + 1
    /\ Show(t, [tab[t] EXCEPT !.op = "appended"])
    /\ UNCHANGED <<webLock, confirmed>>

\* The complete event acknowledges, unless the caller was cancelled meanwhile.
ReportAppend(t) ==
    /\ tab[t].op = "appended"
    /\ \/ /\ Show(t, [tab[t] EXCEPT !.op = "open", !.live = tab[t].live + 1, !.record = None])
          /\ confirmed' = Listed(rows)
       \/ /\ Show(t, [tab[t] EXCEPT !.op = "open", !.failed = TRUE, !.record = None])
          /\ UNCHANGED confirmed
    /\ UNCHANGED <<rows, next, webLock>>

AbortAppend(t) ==
    /\ tab[t].op = "appending"
    /\ Show(t, [tab[t] EXCEPT !.op = "open", !.failed = TRUE, !.record = None])
    /\ UNCHANGED <<rows, next, webLock, confirmed>>

\* Clear needs the lock but no readable records.
BeginErase(t) ==
    /\ tab[t].op = "closed" /\ webLock = {}
    /\ webLock' = {t}
    /\ Show(t, [Closed EXCEPT !.op = "erasing"])
    /\ UNCHANGED <<rows, next, confirmed>>

EndErase(t) ==
    /\ tab[t].op = "erasing"
    /\ \/ rows' = Empty /\ next' = 0 /\ confirmed' = <<>>
       \/ UNCHANGED <<rows, next, confirmed>>
    /\ webLock' = {} /\ Show(t, Closed)

\* Close, or the end of the page: what is not committed by then never is.
LeaveTab(t) ==
    /\ tab[t].op # "closed"
    /\ webLock' = webLock \ {t} /\ Show(t, Closed)
    /\ UNCHANGED <<rows, next, confirmed>>

TabStep(t) ==
    \/ OpenTab(t) \/ LeaveTab(t)
    \/ \E r \in Records : BeginTransaction(t, r)
    \/ CommitAppend(t) \/ ReportAppend(t) \/ AbortAppend(t)
    \/ BeginErase(t) \/ EndErase(t)

BrowserNext == \E t \in Tabs : TabStep(t)
=============================================================================
