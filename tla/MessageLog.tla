----------------------------- MODULE MessageLog -----------------------------
(***************************************************************************)
(* The message log behind the dashboard: what the handlers and the         *)
(* operator write to it, the columns of `conversations` derived from it,   *)
(* clearing and retention, and the statistics computed from it.            *)
(*                                                                         *)
(* Every repository call holds the one write lock, so it is one step here; *)
(* but its statements commit one by one, so an error or the end of the     *)
(* process may cut it between them: the steps with a `cut`.                *)
(* Time is counted in hours.                                               *)
(***************************************************************************)
EXTENDS Integers, FiniteSetsExt

CONSTANTS
    Chats,
    HoursPerDay,
    Latencies,     \* latency_ms of an answer: see Bucket
    Windows,       \* the `days` the dashboard asks for
    Retention,     \* message_retention_days, in hours
    MaxRows,       \* bound: rows ever logged
    MaxTime,       \* bound: hours
    MaxFailures    \* bound: cut calls and crashes

ASSUME WindowsAssumption ==
    /\ HoursPerDay \in Nat \ {0} /\ Latencies \subseteq Nat
    /\ Windows \subseteq Nat \ {0} /\ Retention \in Nat \ {0}
ASSUME BoundsAssumption == MaxRows \in Nat /\ MaxTime \in Nat /\ MaxFailures \in Nat

NoRow == 0
NoLatency == -1

VARIABLES
    now,
    log,        \* table messages
    nextId,     \* its AUTOINCREMENT
    conv,       \* table conversations: exists, message_count and last, the row
                \* that last_message_at and last_message_text are of
    asking,     \* chats whose question is with Dify
    parked,     \* chats with files waiting for the debounce timer
    failures,
    torn,       \* history: chats whose columns a cut call has left behind
    purged      \* history: rows that retention has deleted

jobs == <<asking, parked>>
vars == <<now, log, nextId, conv, jobs, failures, torn, purged>>


Init ==
    /\ now = 0 /\ log = {} /\ nextId = 1
    /\ conv = [c \in Chats |-> [exists |-> FALSE, message_count |-> 0, last |-> NoRow]]
    /\ asking = {} /\ parked = {}
    /\ failures = 0 /\ torn = {} /\ purged = {}

Tick ==
    /\ now < MaxTime
    /\ now' = now + 1
    /\ UNCHANGED <<log, nextId, conv, jobs, failures, torn, purged>>

-----------------------------------------------------------------------------
(* log_message. *)

\* A call that is cut counts as a failure.
Cut(cut) == IF cut THEN failures < MaxFailures /\ failures' = failures + 1
                   ELSE UNCHANGED failures

\* Fault: only the user's messages are counted.
CountedUsers(c, role) ==
    IF role # "user" THEN conv
    ELSE [conv EXCEPT ![c].message_count = @ + 1, ![c].last = nextId]
\* The second statement, which an unknown chat does not notice.
Counted(c, role) ==
    IF ~conv[c].exists THEN conv
    ELSE [conv EXCEPT ![c].message_count = @ + 1,
                      ![c].last = IF role = "user" THEN nextId ELSE @]

\* The row, then the columns.
LogMessage(c, role, latency, cut) ==
    /\ nextId <= MaxRows /\ Cut(cut)
    /\ log' = log \cup {[id |-> nextId, chat |-> c, role |-> role, at |-> now,
                         latency |-> latency]}
    /\ nextId' = nextId + 1
    /\ conv' = IF cut THEN conv ELSE Counted(c, role)
    /\ torn' = IF cut THEN torn \cup {c}
               ELSE IF role = "user" THEN torn \ {c} ELSE torn
    /\ UNCHANGED purged

-----------------------------------------------------------------------------
(* The handlers: Pipeline runs one job of a chat at a time. *)

\* ensure_conversation, before anything is logged.
EnsureConversation(c) ==
    /\ ~conv[c].exists
    /\ conv' = [conv EXCEPT ![c].exists = TRUE]
    /\ UNCHANGED <<now, log, nextId, jobs, failures, torn, purged>>

\* Fault: the row is logged before ensure_conversation.
LogUserTextFirst(c) ==
    /\ c \notin asking
    /\ \E cut \in BOOLEAN : LogMessage(c, "user", NoLatency, cut)
    /\ asking' = asking \cup {c}
    /\ UNCHANGED <<now, parked>>
\* handle_text: the message is logged, and put to Dify.
LogUserText(c) ==
    /\ conv[c].exists /\ c \notin asking
    /\ \E cut \in BOOLEAN :
         /\ LogMessage(c, "user", NoLatency, cut)
         /\ asking' = IF cut THEN asking ELSE asking \cup {c}
    /\ UNCHANGED <<now, parked>>

\* handle_media, of a file that Dify has: it is logged, and waits for its batch.
LogUserFile(c) ==
    /\ conv[c].exists /\ c \notin asking
    /\ \E cut \in BOOLEAN :
         /\ LogMessage(c, "user", NoLatency, cut)
         /\ parked' = IF cut THEN parked ELSE parked \cup {c}
    /\ UNCHANGED <<now, asking>>

\* flush_media: one answer for all of a batch.
Flush(c) ==
    /\ c \in parked \ asking
    /\ asking' = asking \cup {c} /\ parked' = parked \ {c}
    /\ UNCHANGED <<now, log, nextId, conv, failures, torn, purged>>

\* Dify's answer is logged, then sent (Delivery).
LogBot(c) ==
    /\ c \in asking
    /\ \E cut \in BOOLEAN, latency \in Latencies : LogMessage(c, "bot", latency, cut)
    /\ asking' = asking \ {c}
    /\ UNCHANGED <<now, parked>>

\* The job fails, or a text gets an empty answer: nothing is logged.
TurnEnds(c) ==
    /\ c \in asking
    /\ asking' = asking \ {c}
    /\ UNCHANGED <<now, log, nextId, conv, parked, failures, torn, purged>>

Crash ==
    /\ Cut(TRUE)
    /\ asking' = {} /\ parked' = {}
    /\ UNCHANGED <<now, log, nextId, conv, torn, purged>>

-----------------------------------------------------------------------------
(* The operator, and retention. *)

\* send_message: what LINE took is logged by log_admin_message, which keeps the
\* preview.  A push that fails changes nothing.
SendMessage(c) ==
    /\ conv[c].exists
    /\ \E cut \in BOOLEAN : LogMessage(c, "admin", NoLatency, cut)
    /\ UNCHANGED <<now, jobs>>

\* Fault: the columns are left as they are.
ClearHistoryKeepsPreview(c) ==
    /\ log' = {r \in log : r.chat # c}
    /\ UNCHANGED <<now, nextId, conv, jobs, failures, torn, purged>>
\* clear_history: the rows go first, then the columns.
ClearHistory(c) ==
    /\ \E cut \in BOOLEAN :
         /\ Cut(cut)
         /\ conv' = IF cut THEN conv ELSE [conv EXCEPT ![c].last = NoRow]
         /\ torn' = IF cut THEN torn \cup {c} ELSE torn \ {c}
    /\ log' = {r \in log : r.chat # c}
    /\ UNCHANGED <<now, nextId, jobs, purged>>

\* clear_all_chats: the columns first, then the rows.
ClearAllChats ==
    /\ \E cut \in BOOLEAN :
         /\ Cut(cut)
         /\ log' = IF cut THEN log ELSE {}
         /\ torn' = IF cut THEN Chats ELSE {}
    /\ conv' = [c \in Chats |-> [conv[c] EXCEPT !.last = NoRow]]
    /\ UNCHANGED <<now, nextId, jobs, purged>>

\* purge_expired: rows of a certain age; the preview stays.
Purge ==
    LET old == {r \in log : r.at < now - Retention} IN
    /\ old # {}
    /\ log' = log \ old
    /\ purged' = purged \cup {r.id : r \in old}
    /\ UNCHANGED <<now, nextId, conv, jobs, failures, torn>>

Next ==
    \/ Tick \/ Crash \/ ClearAllChats \/ Purge
    \/ \E c \in Chats :
         \/ EnsureConversation(c) \/ LogUserText(c) \/ LogUserFile(c) \/ Flush(c) \/ LogBot(c) \/ TurnEnds(c)
         \/ SendMessage(c) \/ ClearHistory(c)

Spec == Init /\ [][Next]_vars

-----------------------------------------------------------------------------
(* What the dashboard reads. *)

Day(t)  == t \div HoursPerDay
Hour(t) == t % HoursPerDay
RowsOf(c, role) == {r \in log : r.chat = c /\ r.role = role}

\* list_chats: the chats with a last message.
Listed == {c \in Chats : conv[c].last # NoRow}

\* _iso_bounds: the half-open interval of whole days.
IsoBounds(start, end) == <<start * HoursPerDay, (end + 1) * HoursPerDay>>

Within(start, end) ==
    {r \in log : IsoBounds(start, end)[1] <= r.at /\ r.at < IsoBounds(start, end)[2]}
Count(rows, role) == Cardinality({r \in rows : r.role = role})
TimedIn(rows) == {r \in rows : r.role = "bot" /\ r.latency # NoLatency}

\* _MAIN_QUERY: one group for each hour that has rows.
MainQuery(start, end) ==
    LET rows == Within(start, end)
        In(g) == {r \in rows : Day(r.at) = g[1] /\ Hour(r.at) = g[2]}
    IN {[day |-> g[1], hour |-> g[2], mi |-> Count(In(g), "user"),
         mo |-> Count(In(g), "bot"), rt_n |-> Cardinality(TimedIn(In(g)))] :
        g \in {<<Day(r.at), Hour(r.at)>> : r \in rows}}

\* The counts of f added up: as many pairs as f has of each x.
Total(f) == Cardinality(UNION {{x} \X (1 .. f[x]) : x \in DOMAIN f})

\* _fold_daily: an entry for each day, hours that have no group are zero.
FoldDaily(start, end, groups) ==
    [d \in start .. end |->
        LET day   == {g \in groups : g.day = d}
            At(h) == {g \in day : g.hour = h}
            users == {r \in Within(start, end) : r.role = "user" /\ Day(r.at) = d}
        IN [messages_in  |-> Total([g \in day |-> g.mi]),
            messages_out |-> Total([g \in day |-> g.mo]),
            timed        |-> Total([g \in day |-> g.rt_n]),
            hourly_in    |-> [h \in 0 .. HoursPerDay - 1 |-> Total([g \in At(h) |-> g.mi])],
            unique_users |-> Cardinality({r.chat : r \in users})]]
DailyRows(start, end) == FoldDaily(start, end, MainQuery(start, end))

\* Fault: an answer of a full ten seconds is in no bucket.
BucketGap(ms) ==
    CASE ms < 1000  -> "<1s"
      [] 1000 <= ms /\ ms < 10000 -> "5-10s"
      [] ms > 10000 -> ">10s"
      [] OTHER -> "none"
\* _RESPONSE_BUCKET_QUERY.
Bucket(ms) ==
    CASE ms < 1000  -> "<1s"
      [] 1000 <= ms /\ ms < 3000  -> "1-3s"
      [] 3000 <= ms /\ ms < 5000  -> "3-5s"
      [] 5000 <= ms /\ ms < 10000 -> "5-10s"
      [] OTHER -> ">10s"
ResponseTimeBuckets(start, end) ==
    [b \in {"<1s", "1-3s", "3-5s", "5-10s", ">10s"} |->
        Cardinality({r \in TimedIn(Within(start, end)) : Bucket(r.latency) = b})]

\* _window_totals; errors is the approximation README.md documents.
WindowTotals(start, end) ==
    LET mi == Count(Within(start, end), "user")
        mo == Count(Within(start, end), "bot")
    IN [mi |-> mi, mo |-> mo, errors |-> IF mi > mo THEN mi - mo ELSE 0]

Today == Day(now)
GetAnalytics(days) ==
    LET start == Today - (days - 1) IN
    [daily |-> DailyRows(start, Today),
     response_times |-> ResponseTimeBuckets(start, Today)]

\* export_analytics: of the same daily rows.
ExportAnalytics(days) ==
    LET daily == DailyRows(Today - (days - 1), Today) IN
    [d \in DOMAIN daily |->
        [messages      |-> daily[d].messages_in + daily[d].messages_out,
         user_messages |-> daily[d].messages_in,
         bot_messages  |-> daily[d].messages_out]]

\* The last `days` days, and the ones before them.
GetPerformance(days) ==
    LET start   == Today - (days - 1)
        prevEnd == start - 1 IN
    [totals |-> WindowTotals(start, Today),
     prev_totals |-> WindowTotals(prevEnd - (days - 1), prevEnd)]

GetRealtime ==
    [today |-> DailyRows(Today, Today)[Today],
     total_users |-> Cardinality({c \in Chats : conv[c].exists}),
     total_in |-> Count(log, "user"), total_out |-> Count(log, "bot")]

-----------------------------------------------------------------------------
(* Properties. *)

\* A user's message is only logged for a chat that has its conversations row.
TypeOK ==
    /\ now \in 0 .. MaxTime /\ nextId \in 1 .. MaxRows + 1
    /\ \A r \in log :
         /\ r.id \in 1 .. nextId - 1 /\ conv[r.chat].exists
         /\ r.role \in {"user", "bot", "admin"}
         /\ r.at \in 0 .. now
         /\ r.latency \in Latencies \cup {NoLatency}
         /\ r.latency # NoLatency <=> r.role = "bot"
    /\ conv \in [Chats -> [exists : BOOLEAN, message_count : 0 .. MaxRows,
                           last : 0 .. MaxRows]]
    /\ asking \subseteq Chats /\ parked \subseteq Chats
    /\ failures \in 0 .. MaxFailures /\ torn \subseteq Chats /\ purged \subseteq Nat

\* list_chats: a chat with user messages in the log is listed, under the newest
\* of them; one without is not listed, and its preview is gone with its
\* messages, unless retention took them.  Cut calls are excused until the next
\* message or clear.
PreviewMatchesLog ==
    \A c \in Chats \ torn :
        LET users == {r.id : r \in RowsOf(c, "user")} IN
        IF users # {} THEN conv[c].last = Max(users)
        ELSE c \in Listed => conv[c].last \in purged

\* message_count covers every row of the log; each cut call may miss one.
CountsEveryRow ==
    \A c \in Chats :
        Cardinality({r \in log : r.chat = c}) <= conv[c].message_count + failures

\* analytics.py: the panels are computed by different queries, and agree: days
\* with hours, days with the performance totals and the export, buckets with the
\* timed answers, today with all time, for each window; and get_performance's
\* current and previous window cover the last 2n days, each message once.
PanelsAgree ==
    /\ \A n \in Windows :
         LET a == GetAnalytics(n)
             p == GetPerformance(n).totals
             q == GetPerformance(n).prev_totals
             x == ExportAnalytics(n) IN
         /\ Total([d \in DOMAIN a.daily |-> a.daily[d].messages_in]) = p.mi
         /\ Total([d \in DOMAIN a.daily |-> a.daily[d].messages_out]) = p.mo
         /\ p.mi + q.mi = Cardinality({r \in log : /\ r.role = "user"
                                                   /\ Today - Day(r.at) < 2 * n})
         /\ Total([d \in DOMAIN x |-> x[d].messages]) = p.mi + p.mo
         /\ Total([d \in DOMAIN a.daily |-> a.daily[d].timed]) = Total(a.response_times)
         /\ a.daily[Today] = GetRealtime.today
         /\ \A d \in DOMAIN a.daily :
              /\ Total(a.daily[d].hourly_in) = a.daily[d].messages_in
              /\ a.daily[d].unique_users <= a.daily[d].messages_in
              /\ a.daily[d].messages_in > 0 => a.daily[d].unique_users > 0
    /\ GetRealtime.today.messages_in <= GetRealtime.total_in
=============================================================================
