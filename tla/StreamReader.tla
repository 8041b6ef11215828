---------------------------- MODULE StreamReader ----------------------------
(***************************************************************************)
(* An SSE connection that replays and follows the Redis stream of a run    *)
(* (chat_session_stream and V4RedisStreamBridge) and the browser it serves *)
(* (sseConnection.ts), over a stream published under StreamContract.       *)
(***************************************************************************)
EXTENDS StreamContract

CONSTANT PageSize   \* entries in a page (128)

ASSUME PageAssumption == PageSize \in Nat \ {0}

VARIABLES
  conn,     \* the connection: where it is, the bounds it read, what it knows of the run
  client    \* the browser: what it is doing, the entry it is at, the rows it shows

vars == <<streamVars, conn, client>>

Closed == [pc |-> "closed", lo |-> 0, tail |-> 0, terminal |-> FALSE,
           over |-> FALSE, fresh |-> FALSE, reason |-> "none"]

Init ==
  /\ InitStream /\ conn = Closed
  /\ client = [mode |-> "following", cursor |-> 0, rows |-> {}, resume |-> 0]

-----------------------------------------------------------------------------
(* chat_session_stream: one connection of one browser. A frame is applied    *)
(* as it is sent, so the connection's `after` is the browser's cursor.      *)

after == client.cursor

\* The browser asks for the run's status when a connection it follows closes.
Dropped(c) == [c EXCEPT !.mode = IF @ = "following" THEN "reconnecting" ELSE @]
Close == conn' = Closed /\ client' = Dropped(client)
Gap(reason) == conn' = [Closed EXCEPT !.pc = "gap", !.reason = reason]

\* Mutant: the lease is renewed and the status kept.
AuthorizedStale == [conn EXCEPT !.fresh = TRUE]

\* refresh_lease reads the run's status when the lease of 15 s is over.
Authorized == IF conn.fresh THEN conn ELSE [conn EXCEPT !.fresh = TRUE, !.over = over]

Connect ==
  /\ conn.pc = "closed" /\ client.mode = "following" /\ authority = "confirmed"
  /\ conn' = [Closed EXCEPT !.pc = "first", !.over = over, !.fresh = TRUE]
  /\ UNCHANGED <<streamVars, client>>

\* 409 sse_run_already_terminal: the browser gives the run up.
ConnectRefused ==
  /\ conn.pc = "closed" /\ client.mode = "following" /\ authority # "confirmed" /\ over
  /\ client' = [client EXCEPT !.mode = "unavailable"]
  /\ UNCHANGED <<streamVars, conn>>

\* resolve_resume, with one read of Redis to a step.
ReadFirst ==
  /\ conn.pc = "first"
  /\ conn' = [conn EXCEPT !.pc = "last", !.lo = IF Exists THEN first ELSE 0]
  /\ UNCHANGED <<streamVars, client>>

Follow(c, tail) == [c EXCEPT !.pc = IF after = tail THEN "live" ELSE "replay", !.lo = 0, !.tail = tail]

ReadLast ==
  LET lo == conn.lo
      hi == IF Exists THEN Len(log) ELSE 0
      origin == after = 0 /\ lo # 0 /\ log[lo].kind = "open" IN
  /\ conn.pc = "last"
  /\ \/ lo = 0 /\ hi = 0 /\ Gap("missing") /\ UNCHANGED client
     \/ (lo = 0) # (hi = 0) /\ Close                       \* bounds unproven, 503
     \/ lo # 0 /\ hi # 0 /\ origin /\ conn' = Follow(conn, hi) /\ UNCHANGED client
     \/ lo # 0 /\ hi # 0 /\ ~origin /\ after < lo /\ Gap("retained") /\ UNCHANGED client
     \/ /\ lo # 0 /\ hi # 0 /\ after >= lo
        /\ conn' = [conn EXCEPT !.pc = "exact", !.lo = 0, !.tail = hi] /\ UNCHANGED client
  /\ UNCHANGED streamVars

\* A browser asks for the result once it has seen the terminal event, so none
\* resumes after one (ResumeDecision.terminal_event_id and .ended are unused).
ReadCursor ==
  /\ conn.pc = "exact"
  /\ IF Retained(after) THEN conn' = Follow(conn, conn.tail) ELSE Gap("continuity")
  /\ UNCHANGED <<streamVars, client>>

\* Mutant: a page is not anchored to the entry it follows.
ContinuousUnanchored == Exists /\ first <= conn.tail

\* The atomic read of replay_page: the first page must start at stream.open, the
\* others must still find the entry they follow.
Continuous ==
  IF after = 0 THEN Exists /\ first <= conn.tail /\ log[first].kind = "open" ELSE Retained(after)

PageEnd(start, tail) == Min({start + PageSize - 1, tail})
PageStart == Max({first, after + 1})

\* The browser with the entries from i to j. After a terminal event it goes to
\* fetch the run's result.
Received(i, j) ==
  [client EXCEPT !.cursor = j, !.rows = @ \cup ({log[k].seq : k \in i..j} \ {0}),
     !.mode = IF \E k \in i..j : log[k].kind = "terminal" THEN "settling" ELSE @]

\* The frames of a page only reach the browser; it may be gone after any of them.
\* project_entry ends the response at stream.end, and before it if the
\* connection has not seen the terminal event.
ReadPage ==
  LET start == PageStart
      page == start..PageEnd(start, conn.tail)
      terminal == conn.terminal \/ \E k \in page : log[k].kind = "terminal"
      end == \E k \in page : log[k].kind = "end" IN
  /\ conn.pc = "replay"
  /\ \/ /\ ~Continuous
        /\ Gap(IF Exists THEN "continuity" ELSE "missing") /\ UNCHANGED client
     \/ /\ Continuous
        /\ \E j \in page : j # Max(page) /\ client' = Dropped(Received(start, j))
        /\ conn' = Closed
     \/ /\ Continuous /\ ~end /\ client' = Received(start, Max(page))
        /\ conn' = [Authorized EXCEPT !.pc = IF Max(page) = conn.tail THEN "live" ELSE "replay",
                                      !.terminal = terminal]
     \/ /\ Continuous /\ end /\ client' = Dropped(Received(start, Max(page)))
        /\ conn' = [Closed EXCEPT !.reason = IF terminal THEN "none" ELSE "unannounced"]
  /\ UNCHANGED streamVars

\* read_stream: XREAD only finds the tail of the next page.
XRead ==
  /\ conn.pc = "live"
  /\ conn' = IF Exists /\ after < Len(log)
             THEN [Authorized EXCEPT !.pc = "replay", !.tail = PageEnd(PageStart, Len(log))]
             ELSE [Authorized EXCEPT !.pc = "idle"]
  /\ UNCHANGED <<streamVars, client>>

\* Nothing to read: the anchor must still be there; then a heartbeat, or the end
\* of the response if the run is known to be over.
IdleCheck ==
  /\ conn.pc = "idle"
  /\ \/ /\ ~Retained(after)
        /\ Gap(IF Exists THEN "continuity" ELSE "missing") /\ UNCHANGED client
     \/ Retained(after) /\ Authorized.over /\ Close
     \/ Retained(after) /\ ~Authorized.over /\ conn' = [Authorized EXCEPT !.pc = "live"] /\ UNCHANGED client
  /\ UNCHANGED streamVars

\* The lease's deadline; one that would show no new status changes nothing.
LeaseLapses ==
  /\ conn.pc \notin {"closed", "gap"} /\ conn.fresh /\ conn.over # over
  /\ conn' = [conn EXCEPT !.fresh = FALSE]
  /\ UNCHANGED <<streamVars, client>>

\* build_gap reads the bounds again: they are absent only for a missing stream.
\* A browser with a cursor may go on from the last event the gap names.
GapFrame ==
  /\ conn.pc = "gap"
  /\ IF ~Exists /\ conn.reason # "missing" THEN Close
     ELSE /\ conn' = Closed
          /\ client' = IF client.mode # "following" THEN client
                       ELSE [client EXCEPT !.mode = "gap",
                               !.resume = IF conn.reason # "missing" /\ after # 0 THEN Len(log) ELSE 0]
  /\ UNCHANGED streamVars

Disconnect == conn.pc # "closed" /\ Close /\ UNCHANGED streamVars

-----------------------------------------------------------------------------
(* The browser: recoverReplayGap, performReconnectSSE and hydration, which  *)
(* reads the run's rows from PostgreSQL.                                    *)

HydrateActive ==
  /\ client.mode = "gap" /\ ~over /\ client.resume # 0
  /\ client' = [mode |-> "following", cursor |-> client.resume, rows |-> DOMAIN ledger, resume |-> 0]
  /\ UNCHANGED <<streamVars, conn>>

\* Without an entry to resume after, or when the history names no message to
\* continue, it only polls the status.
StopFollowing ==
  /\ client.mode = "gap"
  /\ client' = [client EXCEPT !.mode = "stopped", !.cursor = 0, !.resume = 0]
  /\ UNCHANGED <<streamVars, conn>>

\* queryAuthoritativeRunStatus or the history cannot be read: it shows the run as
\* disconnected and waits for the user.
StatusUnavailable ==
  /\ client.mode \in {"gap", "stopped", "reconnecting"}
  /\ client' = [client EXCEPT !.mode = "unavailable"]
  /\ UNCHANGED <<streamVars, conn>>

Reconnect ==
  /\ client.mode = "reconnecting" /\ ~over
  /\ client' = [client EXCEPT !.mode = "following"]
  /\ UNCHANGED <<streamVars, conn>>

HydrateTerminal ==
  /\ client.mode \in {"settling", "stopped", "reconnecting"} /\ over
  /\ client' = [client EXCEPT !.mode = "done", !.rows = DOMAIN ledger]
  /\ UNCHANGED <<streamVars, conn>>

Serve == ReadFirst \/ ReadLast \/ ReadCursor \/ ReadPage \/ XRead \/ IdleCheck \/ GapFrame
Browse == Connect \/ ConnectRefused \/ HydrateActive \/ StopFollowing \/ Reconnect \/ HydrateTerminal

Next ==
  \/ NextStream /\ UNCHANGED <<conn, client>>
  \/ Serve \/ LeaseLapses \/ Disconnect \/ Browse \/ StatusUnavailable

Spec == Init /\ [][Next]_vars

\* The server goes on with a connection, its lease runs out, and the browser
\* does what it has decided to do. Writers, publishers and the TTL are not fair.
FairSpec == Spec /\ WF_vars(Serve) /\ WF_vars(LeaseLapses) /\ WF_vars(Browse)

-----------------------------------------------------------------------------
(* No response ends with 'stream_end_without_observed_terminal': a          *)
(* connection that comes to stream.end has sent the terminal event, also    *)
(* when the stream went away between the two appends.                       *)
EndIsAnnounced == conn.reason # "unannounced"

(* The browser has every row of the stream up to its cursor, received or    *)
(* hydrated: no trimming, expiry, gap or reconnection between the reads of  *)
(* resolve_resume, replay_page and read_stream lets it skip one. Nothing is *)
(* said of a browser that follows a stream created again.                   *)
ClientMissesNothing ==
  \A i \in 1..client.cursor : Original(client.cursor) /\ log[i].seq # 0 => log[i].seq \in client.rows

(* The answer the browser shows has no hole: with a row it has every        *)
(* callback row of the run before it, unless the stream was created again.  *)
NoHoleInAnswer ==
  Original(Len(log)) =>
    \A s \in client.rows : \A t \in 1..(s - 1) : t \in CallbackRows => t \in client.rows

(* When the run ends the browser fetches its result in the end, or shows    *)
(* that it cannot be reached, even if no terminal event is ever published:  *)
(* the connection closes on the status its lease renewal reads.             *)
ClientLearnsOutcome == over ~> client.mode \in {"done", "unavailable"}

=============================================================================
