------------------------------ MODULE Dashboard ------------------------------
(***************************************************************************)
(* Operators at the dashboard: every action but login goes through         *)
(* dispatch, which asks for a session that holds.  Sessions outlive a      *)
(* restart, and so do the pages in the browsers; a request under way does  *)
(* not.  A session that ends does not stop a request that has begun.       *)
(***************************************************************************)
EXTENDS AdminAuth, ChatTags

CONSTANT
    Address        \* of each operator: client_ip_of

ASSUME AddressAssumption == Address \in [Operators -> Ips]

NoSession == 0

VARIABLE
    session    \* authToken of each page

vars == <<authVars, tagVars, session>>

Init ==
    /\ AuthInit /\ TagsInit
    /\ session = [o \in Operators |-> NoSession]

Clock == Tick /\ UNCHANGED <<tagVars, session>>

\* doLogin: a token that came is kept; without one the page stays as it was.
LogIn(o) ==
    /\ \/ WrongPassword(Address[o]) /\ UNCHANGED session
       \/ \E cut \in Cuts :
            /\ RightPassword(Address[o], cut)
            /\ session' = IF cut = "none" THEN [session EXCEPT ![o] = Len(logins')]
                                          ELSE session
    /\ UNCHANGED tagVars

\* doLogout: the token stays good.
LogOut(o) ==
    /\ session[o] # NoSession
    /\ session' = [session EXCEPT ![o] = NoSession]
    /\ UNCHANGED <<authVars, tagVars>>

\* dispatch: validate, then the handler.
Dispatch(o) ==
    /\ session[o] # NoSession /\ Valid(session[o])
    /\ \/ \E n \in Names : AddTag(o, n) \/ RemoveTag(o, n)
       \/ \E old, new \in Names : RenameTag(o, old, new)
       \/ \E c \in Chats : OpenChat(o, c)
       \/ SaveTags(o)
    /\ UNCHANGED <<authVars, session>>

\* A request goes on; an error may cut it.
Proceed(o) ==
    /\ op[o].kind = "rewriting"
    /\ \E done \in SUBSET Candidates(op[o].old) : Rewrite(o, done)
    /\ UNCHANGED <<authVars, session>>

Restart ==
    /\ AuthRestart /\ TagsRestart
    /\ UNCHANGED session

Next ==
    \/ Clock \/ Restart
    \/ \E o \in Operators : LogIn(o) \/ LogOut(o) \/ Dispatch(o) \/ Proceed(o)

Spec == Init /\ [][Next]_vars

-----------------------------------------------------------------------------

\* The types of both parts; a page holds a session that login made.
TypeOK ==
    /\ AuthTypeOK /\ TagsTypeOK
    /\ \A o \in Operators : session[o] \in DOMAIN logins \cup {NoSession}
=============================================================================
