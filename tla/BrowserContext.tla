--------------------------- MODULE BrowserContext ---------------------------
(***************************************************************************)
(* How the tabs of one browser establish and recover their authentication  *)
(* context: the coordinator of hooks/browserAuthCoordinator.ts, which keeps *)
(* one record in IndexedDB under a five-second owner lease, and            *)
(* POST /auth/bootstrap (bootstrap_auth_context_v2 and its Lua script),    *)
(* which reads and sets an HttpOnly cookie the tabs cannot see.            *)
(*                                                                         *)
(* An identity is a browser incarnation with its nonce.  Its generation    *)
(* stays 1: the coordinator sends one nonce for an incarnation, and only a *)
(* second one makes the server offer a rotation.                           *)
(***************************************************************************)
EXTENDS Naturals

CONSTANTS Tabs,       \* invocations of ensureBrowserAuthContext at one time
          MaxFaults   \* bound: faults of the server, the network and the tabs

VARIABLES authority,  \* incarnations the server has a context for
          cookie,     \* the incarnation the browser's cookie names, 0 for no cookie
          record,     \* the coordination record in IndexedDB
          tab,        \* the tabs
          stray,      \* requests of tabs that went away, still on their way
          faults,     \* faults so far
          known       \* incarnations the server ever had a context for

vars == <<authority, cookie, record, tab, stray, faults, known>>

Incarnations == 1 .. MaxFaults + 1
NoOwner == "none"
NoRequest == [inc |-> 0, recovery |-> FALSE, cookie |-> 0]
Asleep == [at |-> "idle", inc |-> 0, mode |-> "ensure", request |-> NoRequest, reply |-> "none"]

Init ==
  /\ authority = {}
  /\ cookie = 0
  /\ record = [inc |-> 1, confirmed |-> FALSE, owner |-> NoOwner, leased |-> FALSE]
  /\ tab = [t \in Tabs |-> Asleep]
  /\ stray = {}
  /\ faults = 0
  /\ known = {}

-----------------------------------------------------------------------------
(* The server.                                                             *)

(* V2_BOOTSTRAP_AUTH_CONTEXT_SCRIPT: a known incarnation is confirmed; an   *)
(* unknown one is missing to a recovery, stale to a browser that holds some *)
(* version 2 cookie, and otherwise created.                                 *)
Answer(q) ==
  CASE q.inc \in authority -> "ready"
    [] q.inc \notin authority /\ q.recovery -> "missing"
    [] q.inc \notin authority /\ ~q.recovery /\ q.cookie # 0 -> "stale"
    [] OTHER -> "ready"

Creates(q) == IF Answer(q) = "ready" THEN {q.inc} ELSE {}
SetsCookie(q, answer) == answer = "ready" /\ q.cookie # q.inc

Serve(q) ==
  /\ authority' = authority \cup Creates(q)
  /\ known' = known \cup Creates(q)

-----------------------------------------------------------------------------
(* The coordinator in a tab.  Each step is one IndexedDB transaction.       *)

(* ownerMatches *)
OwnerMatches(t) ==
  /\ record.owner = t /\ record.leased
  /\ record.inc = tab[t].inc

Request(inc, recovery) == [inc |-> inc, recovery |-> recovery, cookie |-> cookie]
Sends(t, inc, recovery, stage) ==
  tab' = [tab EXCEPT ![t].at = stage, ![t].inc = inc,
                     ![t].request = Request(inc, recovery), ![t].reply = "none"]

(* finally: the owner's lease is given back and the call returns *)
Leaves(t) == tab' = [tab EXCEPT ![t] = Asleep]
Released(t) == IF OwnerMatches(t) THEN [record EXCEPT !.owner = NoOwner, !.leased = FALSE]
                                  ELSE record

(* acquireV2Owner: no owner, or one whose lease has passed *)
Acquire(t, mode) ==
  /\ tab[t].at = "idle"
  /\ record.owner = NoOwner \/ ~record.leased
  /\ record' = [record EXCEPT !.owner = t, !.leased = TRUE]
  /\ tab' = [tab EXCEPT ![t] = [Asleep EXCEPT !.at = "owner", !.mode = mode, !.inc = record.inc]]
  /\ UNCHANGED <<authority, cookie, stray, faults, known>>

(* assertV2Owner, then: nothing to do for a confirmed identity unless the   *)
(* bootstrap is forced; a login only recovers an identity once confirmed.   *)
Begin(t) ==
  /\ tab[t].at = "owner"
  /\ IF OwnerMatches(t) /\ ~(tab[t].mode = "ensure" /\ record.confirmed)
       THEN Sends(t, record.inc, tab[t].mode = "login" /\ record.confirmed, "asked")
              /\ UNCHANGED record
       ELSE Leaves(t) /\ record' = Released(t)
  /\ UNCHANGED <<authority, cookie, stray, faults, known>>

(* The server answers; the reply is on its way *)
Served(t) ==
  /\ tab[t].at \in {"asked", "fresh"} /\ tab[t].reply = "none"
  /\ Serve(tab[t].request)
  /\ tab' = [tab EXCEPT ![t].reply = Answer(tab[t].request)]
  /\ UNCHANGED <<cookie, record, stray, faults>>

Arrives(t) ==
  /\ tab[t].reply # "none"
  /\ cookie' = IF SetsCookie(tab[t].request, tab[t].reply) THEN tab[t].request.inc ELSE cookie
  /\ UNCHANGED <<authority, stray, faults, known>>

ConfirmsAnyway(t) ==
  /\ tab[t].reply = "ready"
  /\ Arrives(t)
  /\ record' = IF record.owner = t THEN [record EXCEPT !.confirmed = TRUE, !.owner = NoOwner,
                                                       !.leased = FALSE]
                                   ELSE [record EXCEPT !.confirmed = TRUE]
  /\ Leaves(t)

(* confirmAndReleaseV2Owner: only the owner of the identity confirms it *)
Confirm(t) ==
  /\ tab[t].reply = "ready"
  /\ Arrives(t)
  /\ record' = IF OwnerMatches(t) THEN [Released(t) EXCEPT !.confirmed = TRUE] ELSE record
  /\ Leaves(t)

NeverReplaced(t) == FALSE

(* replaceConfirmedV2StateWithFreshIdentity: only on the typed missing       *)
(* answer to a recovery, and only a confirmed identity                       *)
MayReplace(t) ==
  /\ tab[t].at = "asked" /\ tab[t].request.recovery /\ tab[t].reply = "missing"
  /\ OwnerMatches(t) /\ record.confirmed

Replace(t) ==
  /\ MayReplace(t)
  /\ Arrives(t)
  /\ record' = [record EXCEPT !.inc = @ + 1, !.confirmed = FALSE]
  /\ Sends(t, record.inc + 1, FALSE, "fresh")

(* Every other answer is thrown to the caller *)
Fail(t) ==
  /\ tab[t].reply \in {"missing", "stale"}
  /\ ~MayReplace(t)
  /\ Arrives(t)
  /\ record' = Released(t)
  /\ Leaves(t)

-----------------------------------------------------------------------------
(* Faults and clocks.                                                      *)

Fault == faults < MaxFaults /\ faults' = faults + 1

(* The request fails in the network: served or not, answered or not *)
NetworkFails(t) ==
  /\ Fault
  /\ tab[t].at \in {"asked", "fresh"}
  /\ record' = Released(t)
  /\ Leaves(t)
  /\ UNCHANGED <<authority, cookie, stray, known>>

(* The tab is closed; its request travels on and its lease is left behind *)
TabCloses(t) ==
  /\ Fault
  /\ tab[t].at # "idle"
  /\ stray' = stray \cup (IF tab[t].at = "owner" \/ tab[t].reply # "none" THEN {}
                                                                     ELSE {tab[t].request})
  /\ Leaves(t)
  /\ UNCHANGED <<authority, cookie, record, known>>

(* ... and may be served late, its cookie kept or not *)
LateRequest(q) ==
  /\ q \in stray
  /\ stray' = stray \ {q}
  /\ Serve(q)
  /\ \/ UNCHANGED cookie
     \/ SetsCookie(q, Answer(q)) /\ cookie' = q.inc
  /\ UNCHANGED <<record, tab, faults>>

(* A slow owner outlives its lease *)
SlowOwner ==
  /\ Fault
  /\ record.leased
  /\ record' = [record EXCEPT !.leased = FALSE]
  /\ UNCHANGED <<authority, cookie, tab, stray, known>>

(* The lease of a closed tab passes *)
LeasePasses ==
  /\ record.leased
  /\ record.owner \in Tabs /\ tab[record.owner].at = "idle"
  /\ record' = [record EXCEPT !.leased = FALSE]
  /\ UNCHANGED <<authority, cookie, tab, stray, faults, known>>

(* The server loses a context: its day has passed, or Redis lost its data *)
ServerForgets(i) ==
  /\ Fault
  /\ i \in authority
  /\ authority' = authority \ {i}
  /\ UNCHANGED <<cookie, record, tab, stray, known>>

(* A context lives one day at most, renewed by nothing.  The browser's own  *)
(* may pass too, which counts among the faults above.                       *)
DayPasses(i) ==
  /\ i \in authority /\ i # record.inc
  /\ authority' = authority \ {i}
  /\ UNCHANGED <<cookie, record, tab, stray, faults, known>>

(* The cookie's Max-Age is the remaining life of the context *)
CookieLapses ==
  /\ cookie # 0 /\ cookie \notin authority
  /\ cookie' = 0
  /\ UNCHANGED <<authority, record, tab, stray, faults, known>>

(* The user clears the cookies *)
CookieCleared ==
  /\ Fault
  /\ cookie # 0
  /\ cookie' = 0
  /\ UNCHANGED <<authority, record, tab, stray, known>>

Modes == {"ensure", "force", "login"}
Next ==
  \/ \E t \in Tabs :
       \/ \E mode \in Modes : Acquire(t, mode)
       \/ Begin(t) \/ Served(t) \/ Confirm(t) \/ Replace(t) \/ Fail(t)
       \/ NetworkFails(t) \/ TabCloses(t)
  \/ \E q \in stray : LateRequest(q)
  \/ \E i \in Incarnations : ServerForgets(i) \/ DayPasses(i)
  \/ SlowOwner \/ LeasePasses \/ CookieLapses \/ CookieCleared

Spec == Init /\ [][Next]_vars

(* A tab that has begun goes on, clocks advance, and the user keeps trying  *)
(* to sign in.                                                              *)
TabGoesOn(t) == Begin(t) \/ Served(t) \/ Confirm(t) \/ Replace(t) \/ Fail(t)
Fairness ==
  /\ \A t \in Tabs : WF_vars(TabGoesOn(t)) /\ SF_vars(Acquire(t, "login"))
  /\ WF_vars(LeasePasses)
  /\ WF_vars(CookieLapses)
  /\ \A i \in Incarnations : WF_vars(DayPasses(i))
  /\ WF_vars(\E q \in stray : LateRequest(q))
FairSpec == Spec /\ Fairness

-----------------------------------------------------------------------------
TypeOK ==
  /\ authority \subseteq Incarnations /\ known \subseteq Incarnations
  /\ cookie \in Incarnations \cup {0}
  /\ record \in [inc : Incarnations, confirmed : BOOLEAN,
                 owner : Tabs \cup {NoOwner}, leased : BOOLEAN]
  /\ \A t \in Tabs : tab[t].inc \in Incarnations \cup {0}
  /\ faults \in 0 .. MaxFaults

(* A confirmed identity is one the server has established: no tab confirms  *)
(* on the strength of an answer about an identity another tab has replaced. *)
ConfirmedWasEstablished == record.confirmed => record.inc \in known

Usable == record.inc \in authority /\ cookie = record.inc

(* Signing in stays possible: however contexts, cookies, replies and tabs   *)
(* are lost, a user who keeps trying gets a cookie for the identity the     *)
(* browser keeps and the server knows.                                      *)
SignInRecovers == []<>Usable
=============================================================================
