------------------------------ MODULE AdminAuth ------------------------------
(***************************************************************************)
(* Admin authentication (admin/auth.py): the limiter of failed logins,     *)
(* which lives in memory, and the session tokens, which live in the        *)
(* database.                                                               *)
(*                                                                         *)
(* login and validate run on the event loop without an await: one step     *)
(* each.  The statements of create_token commit one by one, so an error    *)
(* may cut it.                                                             *)
(***************************************************************************)
EXTENDS Integers, Sequences, FiniteSets

CONSTANTS
    Ips,
    MaxAttempts,   \* admin_login_max_attempts
    Lockout,       \* admin_login_lockout_seconds
    EntryTtl,      \* RATE_LIMIT_ENTRY_TTL_SECONDS
    TokenTtl,      \* admin_token_ttl_hours
    Keep,          \* admin_max_tokens
    MaxTime,       \* bound: clock
    MaxLogins,     \* bound: tokens ever made
    MaxErrors      \* bound: cut calls

\* The defaults: 5 attempts, 300 s, 3600 s, 24 h, 10 tokens.
ASSUME SettingsAssumption ==
    /\ MaxAttempts \in Nat \ {0} /\ Lockout \in Nat \ {0} /\ EntryTtl \in Nat
    /\ TokenTtl \in Nat \ {0} /\ Keep \in Nat \ {0}
    /\ Lockout <= EntryTtl
ASSUME BoundsAssumption == MaxTime \in Nat /\ MaxLogins \in Nat /\ MaxErrors \in Nat

VARIABLES
    now,
    entries,    \* LoginRateLimiter._entries; an absent entry is NoAttempts
    tokens,     \* rows of admin_tokens, named by the order of their logins
    logins,     \* expires_at of every token ever made, in order
    errors,
    failures    \* history: per ip, when the last MaxAttempts + 1 passwords were
                \* found wrong, since the last right one or the last start

authVars == <<now, entries, tokens, logins, errors, failures>>

NoAttempts == [count |-> 0, locked_until |-> 0, touched |-> 0]

AuthInit ==
    /\ now = 0
    /\ entries = [i \in Ips |-> NoAttempts]
    /\ tokens = {} /\ logins = <<>> /\ errors = 0
    /\ failures = [i \in Ips |-> <<>>]

Tick ==
    /\ now < MaxTime
    /\ now' = now + 1
    /\ UNCHANGED <<entries, tokens, logins, errors, failures>>

-----------------------------------------------------------------------------
(* LoginRateLimiter. *)

Allowed(ip) == entries[ip].locked_until <= now

\* _evict_stale.
Stale(e) == e.touched < now - EntryTtl /\ e.locked_until <= now
Kept == [i \in Ips |-> IF Stale(entries[i]) THEN NoAttempts ELSE entries[i]]

\* A lockout that is over, with its count.
Served(e) == e.locked_until # 0 /\ e.locked_until <= now

\* Fault: the lockout comes one failure late.
AfterFailureLate(e) ==
    LET count == 1 + IF Served(e) THEN 0 ELSE e.count IN
    [count |-> count,
     touched |-> now,
     locked_until |-> IF count > MaxAttempts THEN now + Lockout ELSE 0]
\* The entry after record(ip, success=False).
AfterFailure(e) ==
    LET count == 1 + IF Served(e) THEN 0 ELSE e.count IN
    [count |-> count,
     touched |-> now,
     locked_until |-> IF count >= MaxAttempts THEN now + Lockout ELSE 0]

Recorded(times) ==
    LET all == Append(times, now) IN
    IF Len(all) > MaxAttempts + 1 THEN Tail(all) ELSE all

\* login with a wrong password: 401.
WrongPassword(ip) ==
    /\ Allowed(ip)
    /\ entries' = [Kept EXCEPT ![ip] = AfterFailure(@)]
    /\ failures' = [failures EXCEPT ![ip] = Recorded(@)]
    /\ UNCHANGED <<now, tokens, logins, errors>>

-----------------------------------------------------------------------------
(* Session tokens. *)

\* token_is_valid, for a token that login made.
Valid(s) == s \in tokens /\ logins[s] > now

\* create_token: the expired rows go, the new one comes, the newest stay.
Unexpired == {s \in tokens : logins[s] > now}
\* Fault: the oldest rows stay.
NewestOldest(rows) == {s \in rows : Cardinality({r \in rows : r < s}) < Keep}
\* Fault: one more stays.
NewestAndOne(rows) == {s \in rows : Cardinality({r \in rows : r > s}) <= Keep}
Newest(rows) == {s \in rows : Cardinality({r \in rows : r > s}) < Keep}

\* Where create_token may stop.
Cuts == {"none", "insert", "trim"}

CreateToken(cut) ==
    LET new == Len(logins) + 1 IN
    /\ tokens' = CASE cut = "insert" -> Unexpired
                   [] cut = "trim"   -> Unexpired \cup {new}
                   [] OTHER          -> Newest(Unexpired \cup {new})
    /\ logins' = IF cut = "insert" THEN logins ELSE Append(logins, now + TokenTtl)

\* login with the right password: 200, or 500 when create_token is cut.
RightPassword(ip, cut) ==
    /\ Allowed(ip) /\ Len(logins) < MaxLogins
    /\ IF cut = "none" THEN UNCHANGED errors
                       ELSE errors < MaxErrors /\ errors' = errors + 1
    /\ entries' = [Kept EXCEPT ![ip] = NoAttempts]
    /\ failures' = [failures EXCEPT ![ip] = <<>>]
    /\ CreateToken(cut)
    /\ UNCHANGED now

\* The process restarts: the limiter forgets, the tokens stay.
AuthRestart ==
    /\ entries' = [i \in Ips |-> NoAttempts]
    /\ failures' = [i \in Ips |-> <<>>]
    /\ UNCHANGED <<now, tokens, logins, errors>>

-----------------------------------------------------------------------------
(* Properties. *)

\* The types; and the table of tokens stays small.
AuthTypeOK ==
    /\ now \in 0 .. MaxTime
    /\ entries \in [Ips -> [count : Nat, locked_until : Nat, touched : 0 .. MaxTime]]
    /\ tokens \subseteq DOMAIN logins /\ Cardinality(tokens) <= Keep + errors
    /\ Len(logins) <= MaxLogins
    /\ \A s \in DOMAIN logins : logins[s] \in 0 .. now + TokenTtl
    /\ errors \in 0 .. MaxErrors
    /\ \A ip \in Ips : /\ Len(failures[ip]) <= MaxAttempts + 1
                       /\ \A n \in DOMAIN failures[ip] : failures[ip][n] \in 0 .. now

\* No stretch as long as a lockout sees more than MaxAttempts wrong passwords
\* from one address, whatever other addresses do, and whatever is evicted; and
\* an address is only locked out by its own last MaxAttempts failures.
FailuresBounded ==
    \A ip \in Ips :
        LET f == failures[ip] IN
        /\ Len(f) > MaxAttempts => f[1] + Lockout <= f[Len(f)]
        /\ ~Allowed(ip) => /\ Len(f) >= MaxAttempts
                           /\ f[Len(f)] + Lockout = entries[ip].locked_until

\* A login holds until it expires or Keep newer ones have been made, and no
\* longer: each cut create_token may leave one row too many.
SessionsHold ==
    \A s \in DOMAIN logins :
        LET newer == Len(logins) - s IN
        /\ logins[s] > now /\ newer < Keep => Valid(s)
        /\ Valid(s) => logins[s] > now /\ newer < Keep + errors
=============================================================================
