--------------------------- MODULE AuthOperations ---------------------------
(***************************************************************************)
(* Login, logout and credential refresh on browser authentication          *)
(* contexts: the version 2 Lua scripts of app/auth_sessions.py, the        *)
(* handlers of app/routes/auth.py, refresh_company_session of app/auth.py  *)
(* and the per-user company credential of app/mcp/infrastructure/runtime.py.*)
(*                                                                         *)
(* A script is one atomic action of Redis; a handler is a sequence of      *)
(* scripts with company services called in between.  A context is one      *)
(* (incarnation, generation, handle); `live` says that the browser         *)
(* authority names it and neither key has lapsed (same_authority and       *)
(* ttl_consistent), which every script requires.                           *)
(***************************************************************************)
EXTENDS Naturals

CONSTANTS Contexts,   \* browser contexts
          Users,      \* company accounts
          Requests,   \* HTTP requests in progress at one time
          MaxEpoch    \* bound: auth operations begun on one context

VARIABLES context,    \* the context records in Redis
          credential, \* the stored company credential, one per user
          request,    \* the handlers
          renewed,    \* requests during which their context's credential was renewed
          origin,     \* the operation epoch of the login the principal stems from
          signedOut   \* the operation epoch of the latest committed sign-out

vars == <<context, credential, request, renewed, origin, signedOut>>

(* A principal snapshot: who, and which revision of the company's          *)
(* authorization facts it was derived from.                                *)
Nobody == [user |-> "none", facts |-> 0]
Principals == [user : Users, facts : 0 .. 1]
Kinds == {"login", "logout", "refresh"}

NoOp == [kind |-> "none", epoch |-> 0, principal |-> Nobody, subject |-> 0, success |-> 0]
Idle == [at |-> "idle", ctx |-> "none", op |-> NoOp, seen |-> NoOp, principal |-> Nobody]
Stored(u) == credential[u].ctx # "none"

Pristine == [live |-> TRUE, principal |-> Nobody, subject |-> 0, epoch |-> 0,
             kind |-> "none", leased |-> FALSE, success |-> 0]

Init ==
  /\ context = [c \in Contexts |-> Pristine]
  /\ credential = [u \in Users |-> [ctx |-> "none", subject |-> 0, facts |-> 0]]
  /\ request = [r \in Requests |-> Idle]
  /\ renewed = {}
  /\ origin = [c \in Contexts |-> 0]
  /\ signedOut = [c \in Contexts |-> 0]

Goes(r, step) == request' = [request EXCEPT ![r].at = step]
Ends(r) == request' = [request EXCEPT ![r] = Idle] /\ renewed' = renewed \ {r}

(* browser_auth_grant: the principal read with both epochs in one script *)
Grant(c) == [kind |-> "none", epoch |-> context[c].epoch, principal |-> context[c].principal,
             subject |-> context[c].subject, success |-> context[c].success]
SignedIn(c) == context[c].live /\ context[c].principal # Nobody

-----------------------------------------------------------------------------
(* The scripts.                                                            *)

(* V2_BEGIN_AUTH_OPERATION_SCRIPT: a login or logout takes the fence from   *)
(* whoever holds it; a refresh waits for a live lease.                      *)
Busy(c) == context[c].leased
MayBegin(c, kind) ==
  /\ context[c].live
  /\ context[c].epoch < MaxEpoch
  /\ kind = "refresh" => context[c].principal # Nobody /\ ~Busy(c)

Begun(c, kind) ==
  [context[c] EXCEPT !.epoch = @ + 1, !.kind = kind, !.leased = TRUE,
                     !.success = IF kind = "refresh" THEN @ ELSE 0]

(* What begin_auth_operation_for_cookie returns *)
Operation(c, kind) ==
  [kind |-> kind, epoch |-> context[c].epoch + 1, principal |-> context[c].principal,
   subject |-> context[c].subject, success |-> Begun(c, kind).success]

(* V2_COMMIT_AUTH_OPERATION_SCRIPT.  The token is drawn with the epoch and  *)
(* cleared by the commit, so it matches iff the newest operation is op and  *)
(* is still open; the lease must not have lapsed; a refresh keeps the user. *)
CommitsUnfenced(c, op, p) == context[c].live /\ context[c].leased

Commits(c, op, p) ==
  /\ context[c].live
  /\ context[c].epoch = op.epoch /\ context[c].kind # "none"
  /\ context[c].leased
  /\ op.kind = "refresh" /\ p # Nobody => p.user = context[c].principal.user

AuthorizationChanged(c, op, p) ==
  ~(op.kind = "refresh" /\ p # Nobody /\ p.facts = context[c].principal.facts)

(* The record after the commit; only a refresh that carries a credential    *)
(* leaves evidence of success.                                              *)
Committed(c, op, p, carries) ==
  [context[c] EXCEPT !.principal = p,
     !.subject = IF AuthorizationChanged(c, op, p) THEN @ + 1 ELSE @,
     !.success = IF carries /\ op.kind = "refresh" /\ p # Nobody THEN op.epoch ELSE @,
     !.kind = "none", !.leased = FALSE]

Commit(c, op, p, carries) ==
  /\ context' = [context EXCEPT ![c] = Committed(c, op, p, carries)]
  /\ origin' = [origin EXCEPT ![c] = IF op.kind = "login" THEN op.epoch ELSE @]
  /\ signedOut' = [signedOut EXCEPT ![c] = IF p = Nobody THEN op.epoch ELSE @]

-----------------------------------------------------------------------------
(* Login (password and company-JWT logins differ only in how the principal  *)
(* is resolved) and logout.                                                 *)

BeginSession(r, c, kind) ==
  /\ request[r].at = "idle"
  /\ MayBegin(c, kind)
  /\ context' = [context EXCEPT ![c] = Begun(c, kind)]
  /\ request' = [request EXCEPT ![r] =
       [at |-> kind, ctx |-> c, op |-> Operation(c, kind), seen |-> NoOp, principal |-> Nobody]]
  /\ UNCHANGED <<credential, renewed, origin, signedOut>>

(* _resolve_login_principal, resolve_company_login_jwt: the company decides *)
ResolveLogin(r) ==
  /\ request[r].at = "login"
  /\ \E p \in Principals : request' = [request EXCEPT ![r].at = "resolved", ![r].principal = p]
  /\ UNCHANGED <<context, credential, renewed, origin, signedOut>>

CommitLogin(r) ==
  LET q == request[r] IN
  /\ q.at = "resolved"
  /\ IF Commits(q.ctx, q.op, q.principal)
       THEN /\ Commit(q.ctx, q.op, q.principal, FALSE)
            /\ Goes(r, "store")
            /\ UNCHANGED renewed
       ELSE Ends(r) /\ UNCHANGED <<context, origin, signedOut>>
  /\ UNCHANGED credential

(* McpPrincipalJwtStore.put: read the grant the credential is bound to ... *)
ReadGrantForStore(r) ==
  LET q == request[r] IN
  /\ q.at = "store"
  /\ IF SignedIn(q.ctx) /\ context[q.ctx].principal.user = q.principal.user
       THEN request' = [request EXCEPT ![r].at = "write", ![r].seen = Grant(q.ctx)]
                /\ UNCHANGED renewed
       ELSE Ends(r)
  /\ UNCHANGED <<context, credential, origin, signedOut>>

StoresForGrant(c, op, seen, p) ==
  /\ context[c].live
  /\ context[c].subject = seen.subject
  /\ context[c].principal.user = p.user

(* ... and V2_STORE_CREDENTIAL_SCRIPT: write it if no operation has begun   *)
(* since the login and the subject is the one that was read.                *)
Stores(c, op, seen, p) ==
  /\ context[c].live
  /\ context[c].epoch = op.epoch
  /\ context[c].subject = seen.subject
  /\ context[c].kind = "none"
  /\ context[c].principal.user = p.user

WriteCredential(r) ==
  LET q == request[r] IN
  /\ q.at = "write"
  /\ credential' = IF Stores(q.ctx, q.op, q.seen, q.principal)
       THEN [credential EXCEPT ![q.principal.user] =
               [ctx |-> q.ctx, subject |-> q.seen.subject, facts |-> q.principal.facts]]
       ELSE credential
  /\ Ends(r)
  /\ UNCHANGED <<context, origin, signedOut>>

CommitLogout(r) ==
  LET q == request[r] IN
  /\ q.at = "logout"
  /\ IF Commits(q.ctx, q.op, Nobody)
       THEN Commit(q.ctx, q.op, Nobody, FALSE)
       ELSE UNCHANGED <<context, origin, signedOut>>
  /\ Ends(r)
  /\ UNCHANGED credential

-----------------------------------------------------------------------------
(* refresh_company_session.                                                *)

(* The initial grant; a signed-out context cannot renew *)
StartRefresh(r, c) ==
  /\ request[r].at = "idle"
  /\ SignedIn(c)
  /\ request' = [request EXCEPT ![r] =
       [at |-> "begin", ctx |-> c, op |-> NoOp, seen |-> Grant(c), principal |-> Nobody]]
  /\ UNCHANGED <<context, credential, renewed, origin, signedOut>>

(* A peer's renewal counts when it happened since, for the same subject;    *)
(* whether the credential it left is already past its time is left open.    *)
Reusable(now, seen) == now.subject = seen.subject /\ now.success > seen.success

(* The answer: the caller is told its credential is renewed *)
Answers(r, p) == request' = [request EXCEPT ![r].at = "answered", ![r].principal = p]

BeginRefresh(r) ==
  LET q == request[r] c == q.ctx IN
  /\ q.at = "begin"
  /\ MayBegin(c, "refresh")
  /\ context' = [context EXCEPT ![c] = Begun(c, "refresh")]
  /\ request' = [request EXCEPT ![r].at = "begun", ![r].op = Operation(c, "refresh")]
  /\ UNCHANGED <<credential, renewed, origin, signedOut>>

(* refresh_busy: pause and look again, until the wait deadline *)
RefreshBusy(r) ==
  /\ request[r].at = "begin"
  /\ SignedIn(request[r].ctx) /\ Busy(request[r].ctx)
  /\ \/ Goes(r, "waiting") /\ UNCHANGED renewed
     \/ Ends(r)
  /\ UNCHANGED <<context, credential, origin, signedOut>>

(* The grant is read again.  A different user ends the wait, a peer's       *)
(* renewal answers it, and otherwise begin is tried again.                  *)
WaitForPeer(r) ==
  LET q == request[r] c == q.ctx IN
  /\ q.at = "waiting"
  /\ SignedIn(c)
  /\ IF context[c].principal.user # q.seen.principal.user
       THEN Ends(r)
       ELSE /\ \/ Reusable(Grant(c), q.seen) /\ Answers(r, context[c].principal)
               \/ Goes(r, "begin")
            /\ UNCHANGED renewed
  /\ UNCHANGED <<context, credential, origin, signedOut>>

(* begin or the grant read is refused: stale context or signed out *)
RefreshRefused(r) ==
  /\ request[r].at \in {"begin", "waiting"}
  /\ ~SignedIn(request[r].ctx)
  /\ Ends(r)
  /\ UNCHANGED <<context, credential, origin, signedOut>>

(* Under the lease: another user's context is given back; a principal from  *)
(* another source or policy version is denied; a peer's renewal answers the *)
(* caller; otherwise the company is asked.                                  *)
CheckBegun(r) ==
  LET q == request[r] IN
  /\ q.at = "begun"
  /\ IF q.op.principal.user # q.seen.principal.user
       THEN Goes(r, "release")
       ELSE \/ Goes(r, "denied")
            \/ Reusable(q.op, q.seen) /\ Goes(r, "share")
            \/ Goes(r, "asking")
  /\ UNCHANGED <<context, credential, renewed, origin, signedOut>>

(* issue_refreshed_company_jwt: renewed facts, a denial, or no answer *)
AskCompany(r) ==
  /\ request[r].at = "asking"
  /\ \/ \E f \in 0 .. 1 : request' = [request EXCEPT ![r].at = "renewing",
          ![r].principal = [user |-> request[r].op.principal.user, facts |-> f]]
     \/ Goes(r, "denied")
     \/ Goes(r, "release")
  /\ UNCHANGED <<context, credential, renewed, origin, signedOut>>

(* The principal and the sealed credential are committed in one script; the *)
(* credential names the subject epoch the handler predicts.                 *)
CommitRenewal(r) ==
  LET q == request[r]
      c == q.ctx
      changed == q.op.principal.facts # q.principal.facts
  IN
  /\ q.at = "renewing"
  /\ IF Commits(c, q.op, q.principal)
       THEN /\ Commit(c, q.op, q.principal, TRUE)
            /\ credential' = [credential EXCEPT ![q.principal.user] =
                 [ctx |-> c, subject |-> q.op.subject + (IF changed THEN 1 ELSE 0),
                  facts |-> q.principal.facts]]
            /\ renewed' = renewed \cup {s \in Requests : request[s].ctx = c}
            /\ Answers(r, q.principal)
       ELSE /\ Goes(r, "release")
            /\ UNCHANGED <<context, credential, renewed, origin, signedOut>>

(* PrincipalAuthorityDenied: the context is signed out under the lease *)
CommitDenial(r) ==
  LET q == request[r] IN
  /\ q.at = "denied"
  /\ IF Commits(q.ctx, q.op, Nobody)
       THEN Commit(q.ctx, q.op, Nobody, FALSE) /\ Ends(r)
       ELSE Goes(r, "release") /\ UNCHANGED <<context, renewed, origin, signedOut>>
  /\ UNCHANGED credential

(* finally: give the lease back by committing the principal begin returned; *)
(* whatever comes of it is ignored.                                         *)
Release(r) ==
  LET q == request[r] IN
  /\ q.at \in {"release", "share"}
  /\ IF Commits(q.ctx, q.op, q.op.principal)
       THEN Commit(q.ctx, q.op, q.op.principal, FALSE)
       ELSE UNCHANGED <<context, origin, signedOut>>
  /\ IF q.at = "share" THEN Answers(r, q.op.principal) /\ UNCHANGED renewed ELSE Ends(r)
  /\ UNCHANGED credential

Returned(r) ==
  /\ request[r].at = "answered"
  /\ Ends(r)
  /\ UNCHANGED <<context, credential, origin, signedOut>>

-----------------------------------------------------------------------------
(* The environment.                                                        *)

(* The process serving a request dies, or a service it calls fails a login: *)
(* what its scripts wrote stays, its lease is left to lapse.                *)
Dropped(r) ==
  /\ request[r].at \notin {"idle", "answered"}
  /\ Ends(r)
  /\ UNCHANGED <<context, credential, origin, signedOut>>

(* The operation lease of 90 seconds passes *)
LeaseLapses(c) ==
  /\ context[c].leased
  /\ context' = [context EXCEPT ![c].leased = FALSE]
  /\ UNCHANGED <<credential, request, renewed, origin, signedOut>>

(* The context lapses with its day, or the browser rotates to a new one *)
Superseded(c) ==
  /\ context[c].live
  /\ context' = [context EXCEPT ![c].live = FALSE]
  /\ UNCHANGED <<credential, request, renewed, origin, signedOut>>

Next ==
  \/ \E r \in Requests, c \in Contexts :
       \/ \E kind \in {"login", "logout"} : BeginSession(r, c, kind)
       \/ StartRefresh(r, c)
  \/ \E r \in Requests :
       \/ ResolveLogin(r) \/ CommitLogin(r) \/ ReadGrantForStore(r) \/ WriteCredential(r)
       \/ CommitLogout(r)
       \/ BeginRefresh(r) \/ RefreshBusy(r) \/ WaitForPeer(r) \/ RefreshRefused(r)
       \/ CheckBegun(r)
       \/ AskCompany(r) \/ CommitRenewal(r) \/ CommitDenial(r) \/ Release(r)
       \/ Returned(r) \/ Dropped(r)
  \/ \E c \in Contexts : LeaseLapses(c) \/ Superseded(c)

Spec == Init /\ [][Next]_vars

-----------------------------------------------------------------------------
Operations == [kind : Kinds \cup {"none"}, epoch : 0 .. MaxEpoch,
               principal : Principals \cup {Nobody}, subject : 0 .. MaxEpoch,
               success : 0 .. MaxEpoch]

(* Every record has the shape its script validates (valid_v2): the evidence *)
(* of a renewal never runs ahead of the operations begun.                   *)
TypeOK ==
  /\ context \in [Contexts -> [live : BOOLEAN, principal : Principals \cup {Nobody},
                               subject : 0 .. MaxEpoch, epoch : 0 .. MaxEpoch,
                               kind : Kinds \cup {"none"}, leased : BOOLEAN,
                               success : 0 .. MaxEpoch]]
  /\ \A c \in Contexts : context[c].success <= context[c].epoch
  /\ \A u \in Users : credential[u].ctx \in Contexts \cup {"none"}
  /\ \A r \in Requests : request[r].op \in Operations /\ request[r].seen \in Operations
  /\ renewed \subseteq Requests

(* A sign-out sticks: the principal of a context always stems from a login  *)
(* that began after the latest committed logout or denial, whatever late    *)
(* logins, refreshes and lease releases are still on their way.             *)
SignOutSticks ==
  \A c \in Contexts : context[c].principal # Nobody => origin[c] > signedOut[c]

(* A credential the store would hand out was issued for the authorization   *)
(* now in force: when its context is live, the user is signed in there and  *)
(* the subject epochs agree, so do the authorization facts.                 *)
CredentialMatchesSubject ==
  \A u \in Users : LET k == credential[u] IN
    (Stored(u) /\ SignedIn(k.ctx) /\ context[k.ctx].principal.user = u
       /\ context[k.ctx].subject = k.subject)
      => context[k.ctx].principal.facts = k.facts

(* A refresh that answers success is telling the truth: the credential of   *)
(* the user it was asked for was renewed while it ran, by itself or a peer. *)
RefreshIsTruthful ==
  \A r \in Requests : request[r].at = "answered" =>
    /\ r \in renewed
    /\ request[r].principal.user = request[r].seen.principal.user
=============================================================================
