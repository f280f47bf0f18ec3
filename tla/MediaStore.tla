----------------------------- MODULE MediaStore -----------------------------
(***************************************************************************)
(* The dashboard's media library: files in MEDIA_DIR, and the `media`      *)
(* table that indexes them and that eviction and clearing go by.           *)
(*                                                                         *)
(* Saves (one to_thread call each) and an operator's clears (a to_thread   *)
(* call on the database, then another that unlinks) run as threads; only   *)
(* the database lock excludes them from each other.  Every SQL statement   *)
(* commits by itself, so a crash or an error may come after any of them;   *)
(* so may it after each file operation.                                    *)
(***************************************************************************)
EXTENDS Naturals, Sequences, FiniteSets, Functions

CONSTANTS
    Threads, Chats, Messages,
    NoThread,     \* the database lock is free
    NoMessage,
    ChatOf,       \* the chat of each message
    Size,         \* size_bytes of each message
    MaxCount,     \* media_store_max_count
    MaxBytes,     \* media_store_max_bytes
    MaxSaves,     \* bound: saves, of all messages
    MaxClears,    \* bound: clears by the operator
    MaxErrors,    \* bound: calls that raise
    MaxRestarts   \* bound: crashes

ASSUME MessagesAssumption ==
    /\ NoThread \notin Threads /\ NoMessage \notin Messages
    /\ ChatOf \in [Messages -> Chats] /\ Size \in [Messages -> Nat]
ASSUME CapsAssumption == MaxCount \in Nat /\ MaxBytes \in Nat
ASSUME BoundsAssumption ==
    /\ MaxSaves \in Nat /\ MaxClears \in Nat /\ MaxErrors \in Nat
    /\ MaxRestarts \in Nat

VARIABLES
    index,     \* table media: message ids, oldest row first
    files,     \* messages with a file on disk
    thread,    \* what each thread is doing
    lock,      \* Database._lock: the thread that holds it
    enabled,   \* MEDIA_STORE_ENABLED of this process
    saves, clears, errors, restarts,
    leaked,    \* history: files dropped by a thread that did not finish
    overdue    \* history: rows an eviction had doomed when it was cut short

tables == <<index, files>>
bounds == <<saves, clears, errors, restarts>>
vars   == <<tables, thread, lock, enabled, bounds, leaked, overdue>>

Idle == [pc |-> "idle", msg |-> NoMessage, rows |-> <<>>, paths |-> <<>>]

Init ==
    /\ index = <<>> /\ files = {}
    /\ thread = [t \in Threads |-> Idle] /\ lock = NoThread
    /\ enabled = TRUE
    /\ saves = [m \in Messages |-> 0] /\ clears = 0 /\ errors = 0 /\ restarts = 0
    /\ leaked = {} /\ overdue = {}

-----------------------------------------------------------------------------
(* Eviction. *)

\* stats, get_storage_info: COUNT(*), and SUM(size_bytes) as the number of bytes.
Bytes(ms) == Cardinality(UNION {{m} \X (1 .. Size[m]) : m \in ms})
Fits(ms)  == Cardinality(ms) <= MaxCount /\ Bytes(ms) <= MaxBytes

\* The rows of some messages, in their order.
Only(rows, ms) ==
    LET upTo[i \in 0 .. Len(rows)] ==
          CASE i = 0 -> <<>>
            [] i > 0 /\ rows[i] \in ms -> Append(upTo[i - 1], rows[i])
            [] OTHER -> upTo[i - 1]
    IN upTo[Len(rows)]

Visit(acc, m, doom) ==
    IF doom THEN [acc EXCEPT !.doomed = Append(@, m)]
    ELSE [acc EXCEPT !.kept = @ + 1, !.total = @ + Size[m]]
\* Fault: the size of the row at hand is left out.
OverBefore(acc, m) == acc.kept + 1 > MaxCount \/ acc.total > MaxBytes
Over(acc, m) == acc.kept + 1 > MaxCount \/ acc.total + Size[m] > MaxBytes

\* Fault: a row that does not fit is skipped, and older ones that do are kept.
DoomedBestFit(rows) ==
    LET pass[i \in 0 .. Len(rows)] ==
          IF i = 0 THEN [kept |-> 0, total |-> 0, doomed |-> <<>>]
          ELSE LET acc == pass[i - 1]
                   m   == rows[Len(rows) + 1 - i] IN
               Visit(acc, m, Over(acc, m))
    IN pass[Len(rows)].doomed
\* _evict: newest first, rows are kept until one does not fit; it and all older
\* ones are doomed.
Doomed(rows) ==
    LET pass[i \in 0 .. Len(rows)] ==
          IF i = 0 THEN [kept |-> 0, total |-> 0, doomed |-> <<>>]
          ELSE LET acc == pass[i - 1]
                   m   == rows[Len(rows) + 1 - i] IN
               Visit(acc, m, acc.doomed # <<>> \/ Over(acc, m))
    IN pass[Len(rows)].doomed

-----------------------------------------------------------------------------
(* MediaStore.save. *)

BeginSave(t, m) ==
    /\ enabled /\ thread[t] = Idle /\ FoldFunction(+, 0, saves) < MaxSaves
    /\ saves' = [saves EXCEPT ![m] = @ + 1]
    /\ thread' = [thread EXCEPT ![t] = [Idle EXCEPT !.pc = "writing", !.msg = m]]
    /\ UNCHANGED <<tables, lock, enabled, clears, errors, restarts, leaked, overdue>>

\* Fault: a write that failed is taken for done.
WriteFileSwallows(t) ==
    LET m == thread[t].msg IN
    /\ thread[t].pc = "writing"
    /\ files' \in {files, files \cup {m}} /\ leaked' = leaked \ {m}
    /\ thread' = [thread EXCEPT ![t].pc = "indexing"]
    /\ UNCHANGED <<index, lock, enabled, bounds, overdue>>
WriteFile(t) ==
    LET m == thread[t].msg IN
    /\ thread[t].pc = "writing"
    /\ files' = files \cup {m} /\ leaked' = leaked \ {m}
    /\ thread' = [thread EXCEPT ![t].pc = "indexing"]
    /\ UNCHANGED <<index, lock, enabled, bounds, overdue>>

Without(rows, m) == Only(rows, Messages \ {m})

\* Fault: a second save of a message adds a second row.
InsertedTwice(m) == Append(index, m)
\* INSERT OR REPLACE: a message saved again becomes the newest row.
Inserted(m) == Append(Without(index, m), m)

\* The row goes in, and _evict lists what has to go.
InsertRow(t) ==
    LET doomed == Doomed(Inserted(thread[t].msg)) IN
    /\ thread[t].pc = "indexing" /\ lock = NoThread
    /\ index' = Inserted(thread[t].msg) /\ lock' = t
    /\ thread' = [thread EXCEPT ![t].pc = "evicting",
                                ![t].rows = doomed, ![t].paths = doomed]
    /\ UNCHANGED <<files, enabled, bounds, leaked, overdue>>

DeleteRow(t) ==
    /\ thread[t].pc = "evicting" /\ thread[t].rows # <<>>
    /\ index' = Without(index, Head(thread[t].rows))
    /\ thread' = [thread EXCEPT ![t].rows = Tail(@)]
    /\ UNCHANGED <<files, lock, enabled, bounds, leaked, overdue>>

\* What a thread does once the lock is released: unlink these.
Unlinking(paths) ==
    IF paths = <<>> THEN Idle ELSE [Idle EXCEPT !.pc = "unlinking", !.paths = paths]

\* Fault: the evicted files are not unlinked.
EvictDoneForgets(t) ==
    /\ thread[t].pc = "evicting" /\ thread[t].rows = <<>>
    /\ lock' = NoThread /\ overdue' = {}
    /\ thread' = [thread EXCEPT ![t] = Idle]
    /\ UNCHANGED <<tables, enabled, bounds, leaked>>
EvictDone(t) ==
    /\ thread[t].pc = "evicting" /\ thread[t].rows = <<>>
    /\ lock' = NoThread /\ overdue' = {}
    /\ thread' = [thread EXCEPT ![t] = Unlinking(thread[t].paths)]
    /\ UNCHANGED <<tables, enabled, bounds, leaked>>

\* unlink, of a file that is there or not.
Unlink(t) ==
    LET m == Head(thread[t].paths) IN
    /\ thread[t].pc = "unlinking"
    /\ files' = files \ {m} /\ leaked' = leaked \ {m}
    /\ thread' = [thread EXCEPT ![t] = Unlinking(Tail(thread[t].paths))]
    /\ UNCHANGED <<index, lock, enabled, bounds, overdue>>

-----------------------------------------------------------------------------
(* The operator. *)

\* resolve, for get_image: a row and its file.
Resolves(m) == m \in Range(index) /\ m \in files

\* Fault: the paths are read after the rows are gone.
PathsOfAfterDelete(chats) == <<>>
\* The files of these chats, as the index has them.
PathsOf(chats) == Only(index, {m \in Messages : ChatOf[m] \in chats})

\* clear_history of one chat, clear_all_chats: rows first, then the files; with
\* the store switched off since, the rows alone.
Clear(t, chats) ==
    LET paths == PathsOf(chats) IN
    /\ clears < MaxClears /\ thread[t] = Idle /\ lock = NoThread
    /\ clears' = clears + 1
    /\ index' = Only(index, {m \in Messages : ChatOf[m] \notin chats})
    /\ IF enabled
         THEN thread' = [thread EXCEPT ![t] = Unlinking(paths)] /\ UNCHANGED leaked
         ELSE leaked' = leaked \cup Range(paths) /\ UNCHANGED thread
    /\ UNCHANGED <<files, lock, enabled, saves, errors, restarts, overdue>>

-----------------------------------------------------------------------------
(* Failures. *)

\* The files that only thread t still knows of.
Held(t) ==
    CASE thread[t].pc \in {"writing", "indexing"} -> {thread[t].msg}
      [] thread[t].pc = "evicting"  -> Range(thread[t].paths) \ Range(thread[t].rows)
      [] thread[t].pc = "unlinking" -> Range(thread[t].paths)
      [] OTHER -> {}

\* A file or database operation raises.  A write may leave its file, or part
\* of it; the doomed rows not deleted yet stay.  save swallows it, a clear
\* answers 500, and nobody tries again.
ThreadFails(t) ==
    /\ errors < MaxErrors /\ thread[t] # Idle
    /\ errors' = errors + 1
    /\ \/ thread[t].pc = "writing" /\ files' = files \cup {thread[t].msg}
       \/ UNCHANGED files
    /\ leaked' = leaked \cup (Held(t) \cap files')
    /\ overdue' = overdue \cup Range(thread[t].rows)
    /\ lock' = IF lock = t THEN NoThread ELSE lock
    /\ thread' = [thread EXCEPT ![t] = Idle]
    /\ UNCHANGED <<index, enabled, saves, clears, restarts>>

\* The process ends at any point; the next may have another configuration.
Restart ==
    /\ restarts < MaxRestarts
    /\ restarts' = restarts + 1
    /\ leaked' = leaked \cup {m \in files : \E t \in Threads : m \in Held(t)}
    /\ overdue' = overdue \cup UNION {Range(thread[t].rows) : t \in Threads}
    /\ lock' = NoThread /\ thread' = [t \in Threads |-> Idle]
    /\ enabled' \in BOOLEAN
    /\ UNCHANGED <<tables, saves, clears, errors>>

Step(t) ==
    \/ WriteFile(t) \/ InsertRow(t) \/ DeleteRow(t) \/ EvictDone(t) \/ Unlink(t)

Next ==
    \/ \E t \in Threads :
         \/ Step(t) \/ ThreadFails(t)
         \/ \E m \in Messages : BeginSave(t, m)
         \/ Clear(t, Chats)
         \/ \E c \in Chats : Clear(t, {c})
    \/ Restart

Spec == Init /\ [][Next]_vars

\* The operating system runs every thread.
FairSpec == Spec /\ \A t \in Threads : WF_vars(Step(t))

-----------------------------------------------------------------------------
(* Properties. *)

\* One row per message; a thread that holds no lock dooms no row.
TypeOK ==
    /\ index \in Seq(Messages) /\ IsInjective(index)
    /\ files \subseteq Messages
    /\ thread \in [Threads -> [pc : {"idle", "writing", "indexing", "evicting",
                                     "unlinking"},
                               msg : Messages \cup {NoMessage},
                               rows : Seq(Messages), paths : Seq(Messages)]]
    /\ lock \in Threads \cup {NoThread}
    /\ \A t \in Threads : thread[t].rows # <<>> => lock = t
    /\ enabled \in BOOLEAN
    /\ saves \in [Messages -> Nat] /\ clears \in 0 .. MaxClears
    /\ errors \in 0 .. MaxErrors /\ restarts \in 0 .. MaxRestarts
    /\ leaked \subseteq Messages /\ overdue \subseteq Messages

\* media_store.py: both caps hold whenever no save is in the database, also
\* after saves that raced or replaced a row; a cut eviction may leave the rows
\* it had doomed until the next save.
CapsHold ==
    lock = NoThread => Fits(Range(index) \ overdue)

\* _evict gives up exactly the rows that, with all newer ones, exceed a cap:
\* the library is the longest stretch of newest media that fits.
DoomsOnlyOverflow ==
    \A t \in Threads :
        thread[t].pc = "evicting" /\ thread[t].rows = thread[t].paths =>
            \A i \in DOMAIN index :
                index[i] \in Range(thread[t].rows) <=>
                    ~Fits({index[j] : j \in i .. Len(index)})

\* A file without a row, which no eviction and no clear would ever find, is in
\* the hands of a thread or was dropped by one that failed or was killed, or by
\* a clear with the store switched off.
OrphansExplained ==
    files \ Range(index) \subseteq leaked \cup UNION {Held(t) : t \in Threads}

\* get_image ("image not found") for an indexed message: only if it was saved
\* twice, the second time while a clear or an eviction had yet to unlink the
\* first file.
MissingOnlyIfResaved ==
    \A m \in Range(index) : ~Resolves(m) => saves[m] > 1

\* What eviction or a clear took out of the index leaves the disk, if nothing
\* fails and it is not saved again.
EventuallyUnlinked ==
    \A m \in Messages :
        (m \in files \ Range(index)) ~> (m \notin files \/ m \in Range(index) \cup leaked)
=============================================================================
