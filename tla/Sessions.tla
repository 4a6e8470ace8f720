------------------------------ MODULE Sessions ------------------------------
(***************************************************************************)
(* Sign-in sessions: the rows of oauth_sessions (internal/oauth/store), the *)
(* per-session lock, and who uses a session when.                          *)
(*                                                                         *)
(* A session's refresh token is good for one refresh; the refresh answers  *)
(* with its successor, and the row has to follow.  The authorization       *)
(* server may end a session whose spent token is presented again.  The     *)
(* auth gate (internal/middleware/auth) therefore holds the session's lock *)
(* for the whole of a request that writes to the PDS, logout               *)
(* (internal/oauth/handler) holds it too, and a sync pass                  *)
(* (internal/sync/syncuser.go) holds it to resume and refresh, and then    *)
(* uses its copy of the session without it.                                *)
(*                                                                         *)
(* The authorization server and the client library (indigo) are external:  *)
(* they are modelled by what this code relies on.  Cookies are not: any    *)
(* device may come with any session it was ever given.                     *)
(***************************************************************************)
EXTENDS Naturals

CONSTANTS
    Requests,    \* HTTP requests in flight
    Pass,        \* the sync pass of the user
    Sids,        \* session ids
    States,      \* OAuth state parameters
    None,        \* nobody holds the lock
    MaxTokens,   \* bound: refresh tokens issued for one session
    MaxCalls     \* bound: calls that one request makes to its PDS

Tasks == Requests \cup {Pass}
Tokens == 1..MaxTokens
NoToken == 0

ASSUME SessionsAssumption ==
    /\ Pass \notin Requests
    /\ None \notin Tasks
    /\ MaxTokens \in Nat \ {0}
    /\ MaxCalls \in Nat

VARIABLES
    row,          \* oauth_sessions: the refresh token stored, NoToken: no row
    issued,       \* the authorization server: the token that is good next
    revoked,      \* the authorization server: sessions it has ended
    authRequest,  \* oauth_auth_requests by state
    holder,       \* Store.locks: who holds each session's mutex
    task,         \* requests and the pass
    signedOut,    \* history: sessions that a logout deleted
    strayed       \* history: sessions whose row and token may have parted

vars == <<row, issued, revoked, authRequest, holder, task, signedOut, strayed>>

Task == [pc : {"idle", "waiting", "resuming", "refreshing", "using",
               "persisting", "deleting"},
         kind : {"mutate", "logout", "pass"},
         sid : Sids \cup {None},
         copy : Tokens \cup {NoToken},   \* the refresh token in memory
         calls : 0..MaxCalls]

IdleTask == [pc |-> "idle", kind |-> "mutate", sid |-> None,
             copy |-> NoToken, calls |-> 0]

TypeOK ==
    /\ row \in [Sids -> Tokens \cup {NoToken}]
    /\ issued \in [Sids -> Tokens \cup {NoToken}]
    /\ revoked \in SUBSET Sids
    /\ authRequest \in [States -> {"none", "pending", "expired"}]
    /\ holder \in [Sids -> Tasks \cup {None}]
    /\ task \in [Tasks -> Task]
    /\ signedOut \in SUBSET Sids
    /\ strayed \in SUBSET Sids

Init ==
    /\ row = [s \in Sids |-> NoToken]
    /\ issued = [s \in Sids |-> NoToken]
    /\ revoked = {}
    /\ authRequest = [st \in States |-> "none"]
    /\ holder = [s \in Sids |-> None]
    /\ task = [t \in Tasks |-> IdleTask]
    /\ signedOut = {}
    /\ strayed = {}

sidOf(t) == task[t].sid
(* The pass works with the copy it took away from the lock.                *)
TookAway(t) == t = Pass /\ holder[sidOf(t)] # t

(* The store: an upsert, a lookup, a delete; a state is found until it     *)
(* expires.                                                                *)
PutSession(s, token) == [row EXCEPT ![s] = token]
DeleteSession(s) == [row EXCEPT ![s] = NoToken]
HasSession(s) == row[s] # NoToken
PutAuthRequest(st) == [authRequest EXCEPT ![st] = "pending"]
HasAuthRequest(st) == authRequest[st] = "pending"
DeleteAuthRequest(st) == [authRequest EXCEPT ![st] = "none"]
DeleteExpiredAuthRequests ==
    [st \in States |-> IF authRequest[st] = "expired" THEN "none"
                       ELSE authRequest[st]]

-----------------------------------------------------------------------------
(* Sign-in.                                                                *)

(* LoginHandler: the state is kept for the callback, for ten minutes.      *)
StartAuthFlow(st) ==
    /\ authRequest[st] = "none"
    /\ authRequest' = PutAuthRequest(st)
    /\ UNCHANGED <<row, issued, revoked, holder, task, signedOut, strayed>>

Expire(st) ==
    /\ HasAuthRequest(st)
    /\ authRequest' = [authRequest EXCEPT ![st] = "expired"]
    /\ UNCHANGED <<row, issued, revoked, holder, task, signedOut, strayed>>

GCExpired ==
    /\ \E st \in States : authRequest[st] = "expired"
    /\ authRequest' = DeleteExpiredAuthRequests
    /\ UNCHANGED <<row, issued, revoked, holder, task, signedOut, strayed>>

(* CallbackHandler: a session id of its own and its first token, saved.    *)
(* An account that is not admitted is logged out at once, as well as that  *)
(* goes; nobody else knows the session id, so no lock is taken.            *)
Callback(st, s) ==
    /\ HasAuthRequest(st)
    /\ issued[s] = NoToken
    /\ authRequest' = DeleteAuthRequest(st)
    /\ issued' = [issued EXCEPT ![s] = 1]
    /\ revoked' \in {revoked, revoked \cup {s}}
    /\ \/ /\ row' = PutSession(s, 1)
          /\ UNCHANGED signedOut
       \/ /\ signedOut' = signedOut \cup {s}
          /\ UNCHANGED row
    /\ UNCHANGED <<holder, task, strayed>>

-----------------------------------------------------------------------------
(* Requests and the pass.                                                  *)

(* A request that writes to the PDS, a logout, or a sync pass comes with a *)
(* session that was signed in.                                             *)
Arrive(t, kind, s) ==
    /\ task[t].pc = "idle"
    /\ issued[s] # NoToken
    /\ kind = "pass" <=> t = Pass
    /\ task' = [task EXCEPT ![t] = [IdleTask EXCEPT
                   !.pc = "waiting", !.kind = kind, !.sid = s]]
    /\ UNCHANGED <<row, issued, revoked, authRequest, holder, signedOut, strayed>>

(* Who takes the session's lock.  Mutants: logout goes without it; so does *)
(* a request, or the pass while it resumes.                                *)
holdsLockButLogout(kind) == kind # "logout"
holdsLockButRequest(kind) == kind # "mutate"
holdsLock(kind) == kind \in {"mutate", "logout", "pass"}

LockSession(t) ==
    LET s == sidOf(t)
    IN  /\ task[t].pc = "waiting"
        /\ IF holdsLock(task[t].kind)
           THEN /\ holder[s] = None
                /\ holder' = [holder EXCEPT ![s] = t]
           ELSE UNCHANGED holder
        /\ task' = [task EXCEPT ![t].pc = "resuming"]
        /\ UNCHANGED <<row, issued, revoked, authRequest, signedOut, strayed>>

(* The deferred unlock of whoever holds the lock.                          *)
Unlocked(t) ==
    [s \in Sids |-> IF holder[s] = t THEN None ELSE holder[s]]
Return(t) ==
    /\ task' = [task EXCEPT ![t] = IdleTask]
    /\ holder' = Unlocked(t)

(* ResumeSession copies the row.  Without a row, or when it cannot be read *)
(* (the client went away), the request is refused, the pass fails, and the *)
(* logout is over.                                                         *)
(* Mutant: a refused request returns without the deferred unlock.          *)
RefusedKeepsLock(t) ==
    /\ task' = [task EXCEPT ![t] = IdleTask]
    /\ UNCHANGED holder
Refused(t) == Return(t)

Resume(t) ==
    LET s == sidOf(t)
    IN  /\ task[t].pc = "resuming"
        /\ \/ /\ HasSession(s)
              /\ task' = [task EXCEPT
                    ![t].copy = row[s],
                    ![t].pc = CASE task[t].kind = "mutate" -> "using"
                                [] task[t].kind = "pass" -> "refreshing"
                                [] OTHER -> "deleting"]
              /\ UNCHANGED <<holder, revoked>>
           \/ /\ Refused(t)
              /\ UNCHANGED revoked
        /\ UNCHANGED <<row, issued, authRequest, signedOut, strayed>>

(* ClientApp.Logout: revokes, as well as it can, and deletes the row.  The *)
(* delete may fail; the cookie is cleared anyway.                          *)
Logout(t) ==
    LET s == sidOf(t)
    IN  /\ task[t].pc = "deleting"
        /\ revoked' \in {revoked, revoked \cup {s}}
        /\ \/ /\ row' = DeleteSession(s)
              /\ signedOut' = signedOut \cup {s}
           \/ UNCHANGED <<row, signedOut>>
        /\ Return(t)
        /\ UNCHANGED <<issued, authRequest, strayed>>

(* The pass lets go of the lock once it has refreshed, or failed to.       *)
Resumed(t) ==
    /\ task' = [task EXCEPT ![t].pc = "using"]
    /\ holder' = IF task[t].kind = "pass" THEN Unlocked(t) ELSE holder

(* A refresh, by the pass at its start or by a call whose access token ran *)
(* out.  The token in memory is good once: the server answers with the     *)
(* next, or its answer is lost; it refuses a spent one, and may then end   *)
(* the session; or it cannot be reached.                                   *)
RefreshTokens(t) ==
    LET s == sidOf(t)
        good == task[t].copy = issued[s] /\ s \notin revoked
    IN  /\ \/ task[t].pc = "refreshing"
           \/ task[t].pc = "using" /\ task[t].calls < MaxCalls
        /\ \/ /\ good
              /\ issued[s] < MaxTokens
              /\ issued' = [issued EXCEPT ![s] = @ + 1]
              /\ \/ /\ task' = [task EXCEPT ![t].copy = issued[s] + 1,
                                            ![t].pc = "persisting",
                                            ![t].calls = IF @ < MaxCalls THEN @ + 1 ELSE @]
                    /\ strayed' = IF TookAway(t) THEN strayed \cup {s}
                                                 ELSE strayed
                    /\ UNCHANGED holder
                 \/ /\ Resumed(t)
                    /\ strayed' = strayed \cup {s}
              /\ UNCHANGED revoked
           \/ /\ ~good
              /\ revoked' \in {revoked, revoked \cup {s}}
              /\ Resumed(t)
              /\ UNCHANGED <<issued, strayed>>
           \/ /\ Resumed(t)
              /\ UNCHANGED <<issued, revoked, strayed>>
        /\ UNCHANGED <<row, authRequest, signedOut>>

(* A call whose answer rotates the DPoP nonce has the session persisted.   *)
RotateNonce(t) ==
    /\ task[t].pc = "using"
    /\ task[t].calls < MaxCalls
    /\ task' = [task EXCEPT ![t].pc = "persisting", ![t].calls = @ + 1]
    /\ UNCHANGED <<row, issued, revoked, authRequest, holder, signedOut, strayed>>

(* SaveSession upserts the whole session, a row that is gone as well.  It  *)
(* may fail, and the token in memory is then ahead of the row.             *)
SaveSession(t) ==
    LET s == sidOf(t)
    IN  /\ task[t].pc = "persisting"
        /\ \/ /\ row' = PutSession(s, task[t].copy)
              /\ strayed' = IF TookAway(t) THEN strayed \cup {s} ELSE strayed
           \/ /\ strayed' = strayed \cup {s}
              /\ UNCHANGED row
        /\ Resumed(t)
        /\ UNCHANGED <<issued, revoked, authRequest, signedOut>>

(* The handler returns, or the pass is over.                               *)
Finish(t) ==
    /\ task[t].pc = "using"
    /\ Return(t)
    /\ UNCHANGED <<row, issued, revoked, authRequest, signedOut, strayed>>

(* The process dies; a token that was not saved yet is lost.               *)
Crash ==
    /\ task' = [t \in Tasks |-> IdleTask]
    /\ holder' = [s \in Sids |-> None]
    /\ strayed' = strayed \cup {s \in Sids : \E t \in Tasks :
                      task[t].pc = "persisting" /\ sidOf(t) = s}
    /\ UNCHANGED <<row, issued, revoked, authRequest, signedOut>>

-----------------------------------------------------------------------------
Step(t) ==
    \/ LockSession(t) \/ Resume(t) \/ Logout(t)
    \/ RefreshTokens(t) \/ RotateNonce(t) \/ SaveSession(t) \/ Finish(t)

Next ==
    \/ \E t \in Tasks : Step(t)
    \/ \E t \in Tasks, kind \in {"mutate", "logout", "pass"}, s \in Sids :
          Arrive(t, kind, s)
    \/ \E st \in States : StartAuthFlow(st) \/ Expire(st)
    \/ \E st \in States, s \in Sids : Callback(st, s)
    \/ GCExpired \/ Crash

Spec == Init /\ [][Next]_vars

(* A request runs until it returns, and a mutex serves its waiters.        *)
FairSpec ==
    /\ Spec
    /\ \A t \in Tasks : WF_vars(Step(t)) /\ SF_vars(LockSession(t))

-----------------------------------------------------------------------------
(* Properties.                                                             *)

(* "Hold it across GetSession -> use -> SaveSession, or concurrent         *)
(* refreshes can clobber each other" (store.go): the row that the next     *)
(* holder of the lock finds has the token that is good, unless a pass      *)
(* persisted without the lock or a rotated token was lost on its way.      *)
RowHoldsTheGoodToken ==
    \A s \in Sids :
        holder[s] = None /\ row[s] # NoToken /\ s \notin strayed
            => row[s] = issued[s]

(* "concurrent expired-session requests can boot a valid user" (auth.go):  *)
(* no request does, and no pass while it resumes: they present a spent     *)
(* token only after the row and the token have parted.  What a pass does   *)
(* later, with the copy it took away from the lock, is excepted: a request *)
(* may have refreshed meanwhile.                                           *)
ValidUserIsNotBooted ==
    [][\A t \in Tasks, s \in Sids :
         RefreshTokens(t) /\ s \in revoked' \ revoked /\ s \notin strayed
             => TookAway(t)]_vars

(* "Logout holds it so an in-flight refresh persist can't resurrect the    *)
(* row it just deleted" (flow.go): no request does.                        *)
RequestsDoNotRevive ==
    [][\A s \in signedOut :
         row[s] = NoToken /\ row'[s] # NoToken => SaveSession(Pass)]_vars

(* Whatever fails around it, a request that waits for its session's lock   *)
(* is answered.                                                            *)
RequestsAreAnswered ==
    \A t \in Tasks : task[t].pc = "waiting" ~> task[t].pc = "idle"

(* The same comment, of the whole program: refuted by a pass, which        *)
(* persists a rotated nonce without the lock.                              *)
LogoutIsFinal ==
    [][\A s \in signedOut : row[s] = NoToken => row'[s] = NoToken]_vars
=============================================================================
