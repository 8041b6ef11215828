--------------------------- MODULE RunQueueIndex ---------------------------
(***************************************************************************)
(* The readers of the run queue that are not one Lua script                *)
(* (app/queue.py): read_queue_admission and get_run_queue_position look at *)
(* several keys in several calls, and remove_queued_run falls back to      *)
(* calls of its own.  The last two also repair what they find.             *)
(*                                                                         *)
(* One run.  Its payload is a function of the run row, so it has one       *)
(* message; the list may hold copies of it.  Scripts are atomic.           *)
(***************************************************************************)
EXTENDS Naturals

CONSTANTS MaxCopies,  \* bound: copies of the message in the list
          MaxLeases   \* bound: leases of the message

VARIABLES list,    \* copies of the message in the list of queued messages
          meta,    \* the message is in queued_meta,
          rank,    \* in queued_order,
          index,   \* and in the run's entry of queued_run_index
          held,    \* copies in the processing list
          pmeta,   \* the message is in processing_meta
          retry,   \* and in retry_meta
          leases,  \* leases so far
          call,    \* where each reader is in its call
          watched  \* what has been so since the call began

vars == <<list, meta, rank, index, held, pmeta, retry, leases, call, watched>>

Callers == {"admission", "position", "remove"}

Init ==
  /\ list = 0 /\ held = 0 /\ leases = 0
  /\ meta = FALSE /\ rank = FALSE /\ index = FALSE /\ pmeta = FALSE /\ retry = FALSE
  /\ call = [c \in Callers |-> "idle"]
  /\ watched = [present |-> FALSE, over |-> FALSE, added |-> FALSE]

keys == <<list, meta, rank, index>>
leased == <<held, pmeta, retry, leases>>

Goto(c, at) == call' = [call EXCEPT ![c] = at]

-----------------------------------------------------------------------------
(* The scripts *)

Enqueue ==
  /\ ~(index /\ meta /\ rank)
  /\ ~pmeta /\ ~retry
  /\ list < MaxCopies
  /\ list' = list + 1 /\ meta' = TRUE /\ rank' = TRUE /\ index' = TRUE
  /\ UNCHANGED <<leased, call>>

Lease ==
  /\ list > 0 /\ leases < MaxLeases
  /\ list' = list - 1 /\ meta' = FALSE /\ rank' = FALSE /\ index' = FALSE
  /\ held' = held + 1 /\ pmeta' = TRUE /\ retry' = TRUE /\ leases' = leases + 1
  /\ UNCHANGED call

(* The lease has expired *)
Requeue ==
  /\ held > 0 /\ retry /\ list < MaxCopies
  /\ held' = held - 1 /\ pmeta' = FALSE
  /\ list' = list + 1 /\ meta' = TRUE /\ rank' = TRUE /\ index' = TRUE
  /\ UNCHANGED <<retry, leases, call>>

(* Acknowledged, failed or dead-lettered *)
Settle ==
  /\ held > 0 /\ pmeta
  /\ held' = held - 1 /\ pmeta' = FALSE /\ retry' = FALSE
  /\ UNCHANGED <<keys, leases, call>>

-----------------------------------------------------------------------------
(* read_queue_admission: one key after the other *)

AdmissionQueued ==
  /\ call["admission"] = "idle"
  /\ Goto("admission", IF meta THEN "rank" ELSE "processing")
  /\ UNCHANGED <<keys, leased>>

AdmissionRank ==
  /\ call["admission"] = "rank"
  /\ Goto("admission", IF rank THEN "found" ELSE "processing")
  /\ UNCHANGED <<keys, leased>>

AdmissionProcessing ==
  /\ call["admission"] = "processing"
  /\ Goto("admission", IF pmeta THEN "found" ELSE "retry")
  /\ UNCHANGED <<keys, leased>>

AdmissionRetrySkipped ==
  /\ call["admission"] = "retry"
  /\ Goto("admission", "absent")
  /\ UNCHANGED <<keys, leased>>

(* Retry metadata outlives a requeue, so it closes the gap between the      *)
(* look at the queue and the look at the leases                             *)
AdmissionRetry ==
  /\ call["admission"] = "retry"
  /\ Goto("admission", IF retry THEN "found" ELSE "absent")
  /\ UNCHANGED <<keys, leased>>

AdmissionReturns ==
  /\ call["admission"] \in {"found", "absent"}
  /\ Goto("admission", "idle")
  /\ UNCHANGED <<keys, leased>>

-----------------------------------------------------------------------------
(* get_run_queue_position and its repairs *)

PositionIndex ==
  /\ call["position"] = "idle" /\ index
  /\ Goto("position", "meta")
  /\ UNCHANGED <<keys, leased>>

PositionMeta ==
  /\ call["position"] = "meta"
  /\ Goto("position", IF meta THEN "rank" ELSE "zrem")
  /\ UNCHANGED <<keys, leased>>

PositionForgetsRank ==
  /\ call["position"] = "zrem"
  /\ rank' = FALSE
  /\ Goto("position", "hdel")
  /\ UNCHANGED <<list, meta, index, leased>>

PositionRank ==
  /\ call["position"] = "rank"
  /\ Goto("position", IF rank THEN "idle" ELSE "hdel")
  /\ UNCHANGED <<keys, leased>>

PositionDropsIndex ==
  /\ call["position"] = "hdel"
  /\ index' = FALSE
  /\ Goto("position", "idle")
  /\ UNCHANGED <<list, meta, rank, leased>>

-----------------------------------------------------------------------------
(* remove_queued_run: the script, and the bounded fallback *)

RemoveIndexOnly ==
  /\ call["remove"] = "idle"
  /\ list' = IF index /\ meta THEN 0 ELSE list
  /\ meta' = (meta /\ ~index)
  /\ rank' = (rank /\ ~index)
  /\ index' = FALSE
  /\ Goto("remove", IF index THEN "removed" ELSE "scan")
  /\ UNCHANGED leased

RemoveScript ==
  /\ call["remove"] = "idle"
  /\ list' = IF index /\ meta THEN 0 ELSE list
  /\ meta' = (meta /\ ~index)
  /\ rank' = (rank /\ ~index)
  /\ index' = FALSE
  /\ Goto("remove", IF index /\ meta THEN "removed" ELSE "scan")
  /\ UNCHANGED leased

RemoveScan ==
  /\ call["remove"] = "scan"
  /\ Goto("remove", IF list > 0 THEN "lrem" ELSE "removed")
  /\ UNCHANGED <<keys, leased>>

RemoveFromList ==
  /\ call["remove"] = "lrem"
  /\ list' = 0
  /\ Goto("remove", "hdel")
  /\ UNCHANGED <<meta, rank, index, leased>>

RemoveMeta ==
  /\ call["remove"] = "hdel"
  /\ meta' = FALSE
  /\ Goto("remove", "index")
  /\ UNCHANGED <<list, rank, index, leased>>

RemoveReadsIndex ==
  /\ call["remove"] = "index"
  /\ Goto("remove", IF index THEN "hset" ELSE "zrem")
  /\ UNCHANGED <<keys, leased>>

RemoveIndex ==
  /\ call["remove"] = "hset"
  /\ index' = FALSE
  /\ Goto("remove", "zrem")
  /\ UNCHANGED <<list, meta, rank, leased>>

(* The scan may have seen another copy: then all this again *)
RemoveRank ==
  /\ call["remove"] = "zrem"
  /\ rank' = FALSE
  /\ Goto("remove", "removed") \/ Goto("remove", "lrem")
  /\ UNCHANGED <<list, meta, index, leased>>

RemoveReturns ==
  /\ call["remove"] = "removed"
  /\ Goto("remove", "idle")
  /\ UNCHANGED <<keys, leased>>

(* A caller stops wherever it is *)
Stop(c) ==
  /\ call[c] # "idle"
  /\ Goto(c, "idle")
  /\ UNCHANGED <<keys, leased>>

-----------------------------------------------------------------------------
(* History: the message was in Redis all the time since the admission call  *)
(* began; the run has ended or been cancelled; a copy was added to the list *)
(* since the removal began                                                  *)
Watch ==
  watched' =
    [present |-> (list' + held' > 0) /\ (watched.present \/ call["admission"] = "idle"),
     over |-> watched.over \/ call'["remove"] # "idle" \/ (held' < held /\ ~retry'),
     added |-> call["remove"] # "idle" /\ (watched.added \/ list' > list)]

Next ==
  /\ \/ Enqueue \/ Lease \/ Requeue \/ Settle
     \/ AdmissionQueued \/ AdmissionRank \/ AdmissionProcessing \/ AdmissionRetry
     \/ AdmissionReturns
     \/ PositionIndex \/ PositionMeta \/ PositionForgetsRank \/ PositionRank
     \/ PositionDropsIndex
     \/ RemoveScript \/ RemoveScan \/ RemoveFromList \/ RemoveMeta \/ RemoveReadsIndex
     \/ RemoveIndex \/ RemoveRank \/ RemoveReturns
     \/ \E c \in Callers : Stop(c)
  /\ Watch

Spec == Init /\ [][Next]_vars

-----------------------------------------------------------------------------
(* Counts are within their bounds and callers at a step of their call. *)
TypeOK ==
  /\ list \in 0 .. MaxCopies /\ held \in 0 .. MaxLeases /\ leases \in 0 .. MaxLeases
  /\ {meta, rank, index, pmeta, retry} \subseteq BOOLEAN
  /\ \A c \in Callers :
       call[c] \in {"idle", "rank", "processing", "retry", "found", "absent", "meta",
                    "zrem", "hdel", "scan", "lrem", "index", "hset", "removed"}

(* While the run is not over, read_queue_admission says absent only if the  *)
(* message was out of Redis at some moment of the call; and when            *)
(* remove_queued_run returns, only copies added while it ran are left in    *)
(* the list.  Other readers repair the same keys in between.                *)
AnswersAreTrue ==
  /\ call["admission"] = "absent" /\ ~watched.over => ~watched.present
  /\ call["remove"] = "removed" /\ ~watched.added => list = 0
=============================================================================
