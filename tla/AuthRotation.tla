---------------------------- MODULE AuthRotation ----------------------------
(***************************************************************************)
(* How a browser's authentication context changes its identity: creation,  *)
(* migration of a version 1 context, rotation by ticket, repair of a lost   *)
(* rotation answer, OAuth state, and the operations that run across them    *)
(* (app/auth_sessions.py and POST /auth/bootstrap of app/routes/auth.py).   *)
(*                                                                         *)
(* One browser incarnation.  Redis holds its authority record, one context  *)
(* record per handle (a nonce stands for the handle derived from it) and    *)
(* at most one OAuth state.  A script is one atomic action.  Requests take  *)
(* the cookie jar's content when they are sent and run later, in any order; *)
(* answers set the jar later still, or get lost.  Several tabs share the    *)
(* jar, so a request may name any nonce and generation and any ticket the   *)
(* browser was given.  A key's `until` is the time it lapses.               *)
(***************************************************************************)
EXTENDS Naturals, FiniteSets

CONSTANTS Nonces,      \* nonces the browser's tabs draw
          Age,         \* lifetime of a new context
          MaxGen,      \* bound: generations
          MaxSends,    \* bound: requests sent
          MaxDraws,    \* bound: random tokens and tickets drawn
          MaxFlight    \* bound: requests, and answers, in flight at once

VARIABLES now, authority, context, jar,
          tickets,     \* rotation tickets the browser was given
          requests, replies,
          ops,         \* begun operations whose handler has not finished
          oauth,       \* the OAuth state record
          handed,      \* the operations handed back by consumed OAuth states
          drawn, sends

vars == <<now, authority, context, jar, tickets, requests, replies, ops, oauth,
          handed, drawn, sends>>

NoAuthority == [gen |-> 0, handle |-> 0, ticket |-> 0, fresh |-> FALSE, until |-> 0]
NoContext == [ver |-> 0, gen |-> 0, user |-> FALSE, used |-> FALSE, token |-> 0, until |-> 0]
NoCookie == [ver |-> 0, gen |-> 0, handle |-> 0, until |-> 0]
NoState == [ver |-> 0, gen |-> 0, handle |-> 0, token |-> 0]

Cookie(g, n, end) == [ver |-> 2, gen |-> g, handle |-> n, until |-> end]

(* A context left by the version 1 protocol, signed in or not *)
LegacyContext == {[NoContext EXCEPT !.ver = 1, !.user = s, !.used = s, !.until = u] :
                    s \in BOOLEAN, u \in 1 .. Age}

FirstContext == [NoContext EXCEPT !.ver = 2, !.gen = 1, !.until = Age]

(* Nothing yet; a context just created, its answer perhaps sent twice to two  *)
(* tabs; or a context of the version 1 protocol, its cookie kept or not.      *)
Init ==
  /\ now = 0
  /\ \/ /\ authority = NoAuthority
        /\ context = [n \in Nonces |-> NoContext] /\ jar = NoCookie
        /\ replies = {}
     \/ /\ authority = [NoAuthority EXCEPT !.gen = 1, !.handle = 1, !.until = Age]
        /\ context = [n \in Nonces |-> IF n = 1 THEN FirstContext ELSE NoContext]
        /\ jar = Cookie(1, 1, Age)
        /\ replies \in {{}, {[cookie |-> Cookie(1, 1, Age), ticket |-> 0]}}
     \/ \E c \in LegacyContext, keeps \in BOOLEAN :
          /\ authority = NoAuthority /\ replies = {}
          /\ context = [n \in Nonces |-> IF n = 1 THEN c ELSE NoContext]
          /\ jar = IF keeps THEN [NoCookie EXCEPT !.ver = 1, !.handle = 1, !.until = c.until]
                            ELSE NoCookie
  /\ tickets = {} /\ requests = {} /\ ops = {}
  /\ oauth = NoState /\ handed = {}
  /\ drawn = 0 /\ sends = 0

-----------------------------------------------------------------------------
(* The records, as the scripts' helpers read them.                          *)

(* pristine: nobody ever began an operation on it *)
IsPristine(c) == ~c.user /\ ~c.used /\ c.token = 0

(* ttl_consistent *)
TtlConsistent(n) == authority.until = context[n].until

(* same_authority with valid_authority, valid_v2 and ttl_consistent *)
SameAuthority(g, n) ==
  /\ authority.gen # 0 /\ authority.gen = g /\ authority.handle = n
  /\ context[n].ver = 2 /\ context[n].gen = g
  /\ TtlConsistent(n)

-----------------------------------------------------------------------------
(* The browser.                                                             *)

(* POST /auth/bootstrap *)
Send(n, g, t, recovery) ==
  /\ sends < MaxSends /\ Cardinality(requests) < MaxFlight
  /\ requests' = requests \cup {[nonce |-> n, gen |-> g, ticket |-> t,
                                 recovery |-> recovery, cookie |-> jar]}
  /\ sends' = sends + 1
  /\ UNCHANGED <<now, authority, context, jar, tickets, replies, ops, oauth, handed, drawn>>

(* An answer arrives: its Set-Cookie replaces the jar's cookie *)
Deliver(a) ==
  /\ replies' = replies \ {a}
  /\ jar' = IF a.cookie = NoCookie THEN jar ELSE a.cookie
  /\ tickets' = tickets \cup ({a.ticket} \ {0})
  /\ UNCHANGED <<now, authority, context, requests, ops, oauth, handed, drawn, sends>>

Lost(a) ==
  /\ replies' = replies \ {a}
  /\ UNCHANGED <<now, authority, context, jar, tickets, requests, ops, oauth, handed, drawn, sends>>

-----------------------------------------------------------------------------
(* bootstrap_auth_context_v2: which branch a request takes.                  *)

HasV2(r) == r.cookie.ver = 2
IsTarget(r) == HasV2(r) /\ r.gen = r.cookie.gen /\ r.nonce = r.cookie.handle
IsSuccessor(r) == HasV2(r) /\ r.gen = r.cookie.gen + 1 /\ r.nonce # r.cookie.handle
IsOtherNonce(r) == HasV2(r) /\ r.gen = r.cookie.gen /\ r.nonce # r.cookie.handle

Branch(r) ==
  CASE r.recovery    -> IF r.ticket = 0 THEN "recover" ELSE "refuse"
    [] ~r.recovery /\ r.ticket # 0 ->
         IF IsTarget(r) THEN "reconcile" ELSE IF IsSuccessor(r) THEN "rotate" ELSE "refuse"
    [] ~r.recovery /\ r.ticket = 0 ->
         IF IsSuccessor(r) THEN "repair" ELSE IF IsOtherNonce(r) THEN "ticket" ELSE "plain"

(* The request ends with an answer, or with an error that changes nothing.   *)
Answers(r, cookie, ticket) ==
  /\ Cardinality(replies) < MaxFlight
  /\ requests' = requests \ {r}
  /\ replies' = replies \cup {[cookie |-> cookie, ticket |-> ticket]}

Refuses(r) ==
  /\ requests' = requests \ {r}
  /\ UNCHANGED <<replies, authority, context, drawn>>

RefuseRequest(r) ==
  /\ Branch(r) = "refuse" /\ Refuses(r)
  /\ UNCHANGED <<now, jar, tickets, ops, oauth, handed, sends>>

(* V2_BOOTSTRAP_AUTH_CONTEXT_SCRIPT without an authority: a new context, or  *)
(* the version 1 context of this nonce, which a jar without its cookie may    *)
(* only take over while nobody used it.                                       *)
MayEstablish(r) ==
  /\ r.cookie.ver = 0 \/ (r.cookie.ver = 1 /\ r.cookie.handle = r.nonce)
  /\ r.gen = 1
  /\ context[r.nonce].ver # 2
  /\ context[r.nonce].ver = 1 /\ r.cookie.ver = 0 => IsPristine(context[r.nonce])

(* A migrated context keeps what is left of its life. *)
EffectiveEndRenewed(n) == now + Age

EffectiveEnd(n) == IF context[n].ver = 1 THEN context[n].until ELSE now + Age

EstablishedForgets(n) ==
  [NoContext EXCEPT !.ver = 2, !.gen = 1, !.until = EffectiveEnd(n)]

Established(n) ==
  [context[n] EXCEPT !.ver = 2, !.gen = 1, !.until = EffectiveEnd(n)]

(* V2_BOOTSTRAP_AUTH_CONTEXT_SCRIPT with an authority: only its exact         *)
(* generation and handle are confirmed.                                       *)
Confirmed(r) == SameAuthority(r.gen, r.nonce)

(* The cookie the answer sets: none when the request already carries it *)
SetCookie(r) ==
  IF IsTarget(r) THEN NoCookie ELSE Cookie(r.gen, r.nonce, authority.until)

Plain(r) ==
  /\ Branch(r) = "plain"
  /\ IF authority.gen = 0 /\ MayEstablish(r)
       THEN /\ context' = [context EXCEPT ![r.nonce] = Established(r.nonce)]
            /\ authority' = [NoAuthority EXCEPT !.gen = 1, !.handle = r.nonce,
                                                !.until = EffectiveEnd(r.nonce)]
            /\ Answers(r, Cookie(1, r.nonce, EffectiveEnd(r.nonce)), 0)
            /\ UNCHANGED drawn
       ELSE IF Confirmed(r)
       THEN Answers(r, SetCookie(r), 0) /\ UNCHANGED <<authority, context, drawn>>
       ELSE Refuses(r)
  /\ UNCHANGED <<now, jar, tickets, ops, oauth, handed, sends>>

(* recovery_only: never creates, migrates, issues a ticket or rotates *)
Recover(r) ==
  /\ Branch(r) = "recover"
  /\ IF Confirmed(r)
       THEN Answers(r, SetCookie(r), 0) /\ UNCHANGED <<authority, context, drawn>>
       ELSE Refuses(r)
  /\ UNCHANGED <<now, jar, tickets, ops, oauth, handed, sends>>

(* V2_RECONCILE_ROTATION_SCRIPT *)
Reconcile(r) ==
  /\ Branch(r) = "reconcile"
  /\ IF SameAuthority(r.gen, r.nonce)
       THEN Answers(r, NoCookie, 0) /\ UNCHANGED <<authority, context, drawn>>
       ELSE Refuses(r)
  /\ UNCHANGED <<now, jar, tickets, ops, oauth, handed, sends>>

(* V2_ISSUE_ROTATION_TICKET_SCRIPT: a new ticket replaces the old one *)
IssueTicket(r) ==
  /\ Branch(r) = "ticket"
  /\ IF SameAuthority(r.cookie.gen, r.cookie.handle)
       THEN /\ drawn < MaxDraws
            /\ drawn' = drawn + 1
            /\ authority' = [authority EXCEPT !.ticket = drawn', !.fresh = TRUE]
            /\ Answers(r, NoCookie, drawn')
            /\ UNCHANGED context
       ELSE Refuses(r)
  /\ UNCHANGED <<now, jar, tickets, ops, oauth, handed, sends>>

MayRotateOver(r) ==
  /\ SameAuthority(r.cookie.gen, r.cookie.handle)
  /\ authority.ticket = r.ticket /\ authority.fresh

(* V2_ROTATE_AUTH_CONTEXT_SCRIPT *)
MayRotate(r) ==
  /\ SameAuthority(r.cookie.gen, r.cookie.handle)
  /\ authority.ticket = r.ticket /\ authority.fresh
  /\ context[r.nonce].ver = 0

(* "Rotation is a fencing transition, never a session renewal." *)
RotatedEndRenewed == now + Age

RotatedEnd == authority.until

(* The old context record stays in Redis for the repair of a lost answer. *)
RotatedContextsDropOld(r) ==
  [n \in Nonces |->
     IF n = r.nonce THEN [NoContext EXCEPT !.ver = 2, !.gen = r.gen, !.until = RotatedEnd]
     ELSE IF n = r.cookie.handle THEN NoContext ELSE context[n]]

RotatedContexts(r) ==
  [context EXCEPT ![r.nonce] = [NoContext EXCEPT !.ver = 2, !.gen = r.gen,
                                                 !.until = RotatedEnd]]

Rotate(r) ==
  /\ Branch(r) = "rotate"
  /\ IF MayRotate(r)
       THEN /\ context' = RotatedContexts(r)
            /\ authority' = [NoAuthority EXCEPT !.gen = r.gen, !.handle = r.nonce,
                                                !.until = RotatedEnd]
            /\ Answers(r, Cookie(r.gen, r.nonce, RotatedEnd), 0)
            /\ UNCHANGED drawn
       ELSE Refuses(r)
  /\ UNCHANGED <<now, jar, tickets, ops, oauth, handed, sends>>

(* V2_REPAIR_ROTATION_TARGET_SCRIPT: the base cookie names the old context,   *)
(* the authority and the target context must be its exact successor.  While   *)
(* the authority is still the base the answer is an error that lets the       *)
(* client ask for a fresh ticket.                                             *)
TargetRepaired(r) ==
  /\ authority.gen # 0
  /\ context[r.cookie.handle].ver = 2 /\ context[r.cookie.handle].gen = r.cookie.gen
  /\ context[r.nonce].ver # 0
  /\ SameAuthority(r.gen, r.nonce)

RepairTarget(r) ==
  /\ Branch(r) = "repair"
  /\ IF TargetRepaired(r)
       THEN Answers(r, Cookie(r.gen, r.nonce, authority.until), 0)
            /\ UNCHANGED <<authority, context, drawn>>
       ELSE Refuses(r)
  /\ UNCHANGED <<now, jar, tickets, ops, oauth, handed, sends>>

-----------------------------------------------------------------------------
(* Operations: begin_auth_operation_for_cookie and commit_auth_operation.     *)
(* What an operation does next tells whether it is a login, a logout or the   *)
(* start of an OAuth sign-in.                                                 *)

BeginsOnAny(c) ==
  IF c.ver = 1 THEN context[c.handle].ver # 0 ELSE c.ver = 2 /\ SameAuthority(c.gen, c.handle)

(* A raw version 1 cookie reaches only a version 1 record. *)
Begins(c) ==
  IF c.ver = 1 THEN context[c.handle].ver = 1 ELSE c.ver = 2 /\ SameAuthority(c.gen, c.handle)

BeginOperation ==
  /\ drawn < MaxDraws /\ sends < MaxSends
  /\ sends' = sends + 1
  /\ Begins(jar)
  /\ drawn' = drawn + 1
  /\ context' = [context EXCEPT ![jar.handle].token = drawn', ![jar.handle].used = TRUE]
  /\ ops' = ops \cup {[ver |-> jar.ver, gen |-> jar.gen, handle |-> jar.handle,
                       token |-> drawn']}
  /\ UNCHANGED <<now, authority, jar, tickets, requests, replies, oauth, handed>>

CommitsUnfenced(op) == context[op.handle].token = op.token

Commits(op) ==
  /\ context[op.handle].token = op.token
  /\ IF op.ver = 1 THEN context[op.handle].ver = 1 ELSE SameAuthority(op.gen, op.handle)

(* A login signs in, a logout signs out; a fenced operation is refused. *)
CommitOperation(op, signsIn) ==
  /\ ops' = ops \ {op}
  /\ context' = IF Commits(op)
                  THEN [context EXCEPT ![op.handle].user = signsIn, ![op.handle].token = 0]
                  ELSE context
  /\ UNCHANGED <<now, authority, jar, tickets, requests, replies, oauth, handed, drawn, sends>>

(* issue_oauth_state: version 1 stores the state without looking *)
IssueState(op) ==
  /\ ops' = ops \ {op}
  /\ oauth' = IF op.ver = 1 \/ Commits(op)
                THEN [ver |-> op.ver, gen |-> op.gen, handle |-> op.handle, token |-> op.token]
                ELSE oauth
  /\ UNCHANGED <<now, authority, context, jar, tickets, requests, replies, handed, drawn, sends>>

(* consume_oauth_state_for_cookie: the state is deleted before it is compared. *)
StateOwnedByHandle(c) == oauth.handle = c.handle

StateOwned(c) ==
  IF c.ver = 1 THEN oauth.handle = c.handle
  ELSE oauth.ver = 2 /\ oauth.handle = c.handle /\ oauth.gen = c.gen

KeepsState == oauth
DropsState == NoState

ConsumeState ==
  /\ oauth # NoState
  /\ jar.ver = 1 \/ (jar.ver = 2 /\ SameAuthority(jar.gen, jar.handle))
  /\ oauth' = DropsState
  /\ handed' = IF StateOwned(jar)
                 THEN handed \cup {[token |-> oauth.token, ver |-> jar.ver, gen |-> jar.gen,
                                    begun |-> oauth]}
                 ELSE handed
  /\ UNCHANGED <<now, authority, context, jar, tickets, requests, replies, ops, drawn, sends>>

-----------------------------------------------------------------------------
(* Time.                                                                     *)

TicketLapses ==
  /\ authority.fresh
  /\ authority' = [authority EXCEPT !.fresh = FALSE]
  /\ UNCHANGED <<now, context, jar, tickets, requests, replies, ops, oauth, handed, drawn, sends>>

(* The keys lapse in Redis, and the cookie with them.  A context lives for    *)
(* hours: nothing sent during its life is still on its way when it ends.      *)
Live(x, empty) == IF x.until <= now + 1 THEN empty ELSE x

Tick ==
  /\ now < Age
  /\ requests = {} /\ replies = {} /\ ops = {} /\ oauth = NoState
  /\ now' = now + 1
  /\ context' = [n \in Nonces |-> Live(context[n], NoContext)]
  /\ authority' = Live(authority, NoAuthority)
  /\ jar' = Live(jar, NoCookie)
  /\ UNCHANGED <<tickets, requests, replies, ops, oauth, handed, drawn, sends>>

(* The generations a tab names: the cookie's and its successor.  Every branch *)
(* refuses an older one.                                                      *)
Named == {jar.gen, jar.gen + 1} \cap 1 .. MaxGen

(* Nonces are random: a tab takes one somebody used, or the next unused one.  *)
Drawable(n) ==
  n # 1 => (context[n - 1].ver # 0 \/ \E r \in requests : r.nonce = n - 1)

Next ==
  \/ /\ sends < MaxSends
     /\ \E n \in Nonces, g \in Named, t \in tickets \cup {0}, b \in BOOLEAN :
          (b => t = 0) /\ Drawable(n) /\ Send(n, g, t, b)
  \/ \E a \in replies : Deliver(a) \/ Lost(a)
  \/ \E r \in requests : RefuseRequest(r)
  \/ \E r \in requests : Plain(r)
  \/ \E r \in requests : Recover(r)
  \/ \E r \in requests : Reconcile(r)
  \/ \E r \in requests : IssueTicket(r)
  \/ \E r \in requests : Rotate(r)
  \/ \E r \in requests : RepairTarget(r)
  \/ BeginOperation
  \/ \E op \in ops, s \in BOOLEAN : CommitOperation(op, s)
  \/ \E op \in ops : IssueState(op)
  \/ ConsumeState
  \/ TicketLapses
  \/ Tick

Spec == Init /\ [][Next]_vars

-----------------------------------------------------------------------------
(* Properties.                                                              *)

TypeOK ==
  /\ now \in 0 .. Age
  /\ authority \in [gen : 0 .. MaxGen, handle : {0} \cup Nonces, ticket : 0 .. MaxDraws,
                    fresh : BOOLEAN, until : 0 .. 2 * Age]
  /\ context \in [Nonces -> [ver : 0 .. 2, gen : 0 .. MaxGen, user : BOOLEAN,
                             used : BOOLEAN, token : 0 .. MaxDraws, until : 0 .. 2 * Age]]
  /\ jar \in [ver : 0 .. 2, gen : 0 .. MaxGen, handle : {0} \cup Nonces, until : 0 .. 2 * Age]
  /\ tickets \subseteq 1 .. MaxDraws

(* While the browser's authority lives, whatever cookie the jar holds (the    *)
(* base of a rotation whose answer was lost, an older one set by a late       *)
(* answer, a version 1 handle, none), a plain bootstrap request for the       *)
(* current nonce and generation is answered with the current cookie: no lost  *)
(* or reordered answer locks the browser out of its own context               *)
(* (V2_REPAIR_ROTATION_TARGET_SCRIPT, V2_BOOTSTRAP_AUTH_CONTEXT_SCRIPT).      *)
NeverLockedOut ==
  authority.gen # 0 =>
    LET r == [nonce |-> authority.handle, gen |-> authority.gen, ticket |-> 0,
              recovery |-> FALSE, cookie |-> jar]
    IN  CASE Branch(r) = "plain"  -> Confirmed(r)
          [] Branch(r) = "repair" -> TargetRepaired(r)
          [] OTHER                -> FALSE

(* A consumed OAuth state hands back an operation that was begun on the very  *)
(* identity that consumes it, and no state is handed back twice               *)
(* (V2_CONSUME_OAUTH_STATE_SCRIPT).                                           *)
StateHandedOnce ==
  /\ \A h \in handed : h.ver = 2 => h.begun.ver = 2 /\ h.begun.gen = h.gen
  /\ \A h, k \in handed : h.token = k.token => h = k
  /\ oauth # NoState => \A h \in handed : h.token # oauth.token

(* What no step may do.  A rotation fences: a context of an older generation  *)
(* is never changed again, whatever operation was begun on it; its end and    *)
(* the authority's never move (rotation, migration and tickets renew          *)
(* nothing); a migrated context is never reached through the version 1        *)
(* protocol again and keeps its user; generations go up by one.               *)
RotationStep ==
  /\ \A n \in Nonces : context[n].ver # 0 /\ context'[n].ver # 0 =>
       /\ context'[n].until = context[n].until
       /\ context'[n].ver >= context[n].ver
       /\ context'[n].ver # context[n].ver => context'[n].user = context[n].user
       /\ context[n].ver = 2 /\ context[n].gen < authority.gen => context'[n] = context[n]
  /\ \A op \in (ops \ ops') \cup (ops' \ ops) :
       context[op.handle].ver # op.ver => context' = context
  /\ authority.gen # 0 /\ authority'.gen # 0 =>
       /\ authority'.gen \in {authority.gen, authority.gen + 1}
       /\ authority'.until = authority.until

=============================================================================
