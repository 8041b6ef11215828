------------------------- MODULE ContextSnapshots --------------------------
(***************************************************************************)
(* The files a run is given: the ones its context snapshot freezes at      *)
(* admission, and the copies of them the worker stages in the workspace.   *)
(* One session of one user; a run's number is its session generation, a    *)
(* file's number its place in the order of upload.  A file name is the     *)
(* sequence of its stem and the numbers added to it: <<"a", "2">> is       *)
(* "a (2)".                                                                *)
(***************************************************************************)
EXTENDS Naturals, Sequences, FiniteSets, SequencesExt, Functions, TLC

CONSTANTS
  Files,          \* 1..n
  Fits,           \* the files of the type a file Skill declares
  NameOf,         \* the original name of each file
  MaxRuns,
  MaxPrimary,     \* MAX_PRIMARY_FILE_IDS
  PageLimit       \* _SESSION_FILE_SELECTION_PAGE_LIMIT

VARIABLES
  active,     \* sessions.status is active
  owner,      \* files.run_id, 0 while unbound
  runs,       \* the admitted runs, in order of session generation
  disk,       \* the run workspace's inputs: path to file, 0 for a file found there
  todo,       \* authorised files and the paths planned for them
  written,    \* written_paths
  stage       \* of the materialisation: "idle", "writing", "staged", "failed"

vars == <<active, owner, runs, disk, todo, written, stage>>

Run == [profile : BOOLEAN, wants : BOOLEAN, source : 0..MaxRuns,
        primary : Seq(Files), files : Seq(Files),
        count : Nat, names : SUBSET {NameOf[f] : f \in Files}]
NoDisk == [p \in {} |-> 0]
Min2(a, b) == IF a < b THEN a ELSE b

TypeOK ==
  /\ active \in BOOLEAN
  /\ owner \in [Files -> 0..MaxRuns]
  /\ \A i \in DOMAIN runs : runs[i] \in Run
  /\ \A p \in DOMAIN disk : disk[p] \in Files \cup {0}
  /\ \A i \in DOMAIN todo : todo[i][2] \in Files
  /\ stage \in {"idle", "writing", "staged", "failed"}

Init ==
  /\ active = TRUE
  /\ owner = [f \in Files |-> 0]
  /\ runs = << >>
  /\ disk = NoDisk /\ todo = << >> /\ written = {} /\ stage = "idle"

-----------------------------------------------------------------------------
(* Selection of the files. *)

\* Files of the session that the snapshot of their own run includes.
Authorized == {f \in Files : owner[f] # 0 /\ f \in Range(runs[owner[f]].files)}

Newest(S) == SetToSortSeq(S, >)
Head2(s, n) == SubSeq(s, 1, Min2(n, Len(s)))

\* compatible_reusable_file_ids: of the right type, the first of each name.
Compatible(rows) ==
  SelectSeq(rows, LAMBDA f : /\ f \in Fits
                             /\ \A g \in Range(rows) :
                                  (g \in Fits /\ g > f) => NameOf[g] # NameOf[f])

\* One keyset page of list_authorized_session_input_files, newest first.
Page(before) == Head2(Newest({f \in Authorized : f < before}), PageLimit)

LastPageFull(page) == TRUE

\* The loop ends at a page that is not full.
LastPage(page) == Len(page) < PageLimit

RECURSIVE Pages(_, _, _)
\* Its loop with declared types: `got` is selected so far, newest first.
Pages(before, got, limit) ==
  LET page == Page(before)
      names == {NameOf[f] : f \in Range(got)}
      more == SelectSeq(Compatible(page), LAMBDA f : NameOf[f] \notin names)
      sel == Head2(got \o more, limit)
  IN IF Len(sel) >= limit \/ LastPage(page) THEN sel
     ELSE Pages(page[Len(page)], sel, limit)

SnapshotFileIdsCut(current, historical) ==
  Head2(historical \o current, MaxPrimary)

\* snapshot_file_ids: every current file and the newest of the history.
SnapshotFileIds(current, historical) ==
  IF Len(current) >= MaxPrimary THEN current
  ELSE Head2(historical, MaxPrimary - Len(current)) \o current

\* primary_file_ids_for_run: this turn's uploads, else compatible ones.
PrimaryFileIds(requested, wants) ==
  IF requested # << >> THEN requested
  ELSE IF wants THEN Head2(Compatible(Newest(Range(Pages(Cardinality(Files) + 1, << >>, MaxPrimary)))), MaxPrimary)
  ELSE << >>

\* select_run_file_snapshot of a chat turn.
ChatFiles(requested, wants, profile) ==
  IF profile THEN SnapshotFileIds(requested, Newest(Authorized \ Range(requested)))
  ELSE PrimaryFileIds(requested, wants)

SessionFilesByUpload(run, except) == Newest({f \in Authorized : owner[f] < run} \ except)

\* list_session_context_files: newest generation first, then newest upload.
SessionFiles(run, except) ==
  SetToSortSeq({f \in Authorized : owner[f] < run} \ except,
               LAMBDA f, g : owner[f] > owner[g] \/ (owner[f] = owner[g] /\ f > g))

-----------------------------------------------------------------------------
(* Admission, one transaction under the session's lock. *)

\* _manifest_file_refs and ContextPlanner.plan: what the executor is told of.
FileRefs(files) == [i \in DOMAIN files |-> <<files[i], NameOf[files[i]]>>]

\* executor_context_pack's file_count.
FileCount(refs) == Len(refs)

\* public_context_manifest_projection: the names shown, each once.
SelectedFileNames(refs) ==
  {refs[i][2] : i \in {j \in DOMAIN refs :
     Cardinality({refs[k][2] : k \in 1..(j - 1)}) < MaxPrimary}}

\* create_context_snapshot: every member is a file of this session's runs.
Eligible(files) == \A f \in Range(files) : owner'[f] # 0

\* ContextSnapshotRecorder.record: the snapshot and the run's only reference.
Record(profile, wants, source, primary, files) ==
  /\ Eligible(files)
  /\ runs' = Append(runs, [profile |-> profile, wants |-> wants, source |-> source,
                           primary |-> primary, files |-> files,
                           count |-> FileCount(FileRefs(files)),
                           names |-> SelectedFileNames(FileRefs(files))])
  /\ UNCHANGED <<active, disk, todo, written, stage>>

\* authorize_files_for_run and bind_files_to_run.
Bind(run, requested, checked) ==
  /\ \A f \in Range(requested) : owner[f] = 0
  /\ checked => Len(Compatible(Newest(Range(requested)))) = Len(requested)
  /\ owner' = [f \in Files |-> IF f \in Range(requested) THEN run ELSE owner[f]]

MayAdmit == active /\ Len(runs) < MaxRuns /\ stage = "idle"

\* A chat turn; `profile` when an agent profile was admitted for it.
chat_stream(requested, wants, profile) ==
  LET run == Len(runs) + 1
      files == ChatFiles(requested, wants, profile)
  IN /\ MayAdmit
     /\ (wants /\ ~profile) => files # << >>
     /\ Bind(run, requested, wants /\ ~profile)
     /\ Record(profile, wants, 0, files, files)

\* The runs API continues the session with its files, too.
create_run(requested, wants) ==
  LET run == Len(runs) + 1
      primary == PrimaryFileIds(requested, wants)
  IN /\ MayAdmit
     /\ wants => primary # << >>
     /\ Bind(run, requested, wants)
     /\ Record(FALSE, wants, run, primary,
               SnapshotFileIds(primary, SessionFiles(run, Range(primary))))

\* get_scoped_context_file, for every file of a copied run.
SourceHolds(r, files) == Range(files) \subseteq Range(runs[r].files)

\* A copy, retry or resume of run r; its files must be the source's.
copy_run(r) ==
  LET run == Len(runs) + 1
      primary == runs[r].primary
      files == SnapshotFileIds(primary, SessionFiles(run, Range(primary)))
  IN /\ MayAdmit
     /\ SourceHolds(r, files)
     /\ UNCHANGED owner
     /\ Record(runs[r].profile, runs[r].wants, r, primary, files)

delete_session ==
  /\ active /\ runs # << >>
  /\ active' = FALSE
  /\ UNCHANGED <<owner, runs, disk, todo, written, stage>>

-----------------------------------------------------------------------------
(* The worker stages the files of the newest run. *)

NumberedOnce(name, taken) == IF name \in taken THEN Append(name, "2") ELSE name

\* The name, or the first numbered form of it that is not taken.
Numbered(name, taken) ==
  LET form(k) == IF k = 1 THEN name ELSE Append(name, ToString(k))
  IN form(CHOOSE k \in 1..(Cardinality(taken) + 1) :
            form(k) \notin taken /\ \A j \in 1..(k - 1) : form(j) \in taken)

\* materialize_worker_context_snapshot: the files of the bound snapshot.
WorkerFiles == runs[Len(runs)].files

\* The path of each file.
Planned(files) ==
  FoldLeft(LAMBDA plan, f :
             Append(plan, <<Numbered(NameOf[f], {plan[i][1] : i \in DOMAIN plan}), f>>),
           << >>, files)

\* Every file is authorised before anything is written; the workspace may
\* hold files already.
authorize_files(found) ==
  /\ runs # << >> /\ stage = "idle"
  /\ WorkerFiles # << >>
  /\ IF active
     THEN todo' = Planned(WorkerFiles) /\ stage' = "writing"
     ELSE stage' = "failed" /\ UNCHANGED todo
  /\ disk' = [p \in found |-> 0]
  /\ UNCHANGED <<active, owner, runs, written>>

Cleaned(paths) == [p \in DOMAIN disk \ paths |-> disk[p]]

ConflictClears(path) == Cleaned(written \cup {path})

\* What is left when the target of a file exists.
OnConflict(path) == Cleaned(written)

\* The next file: its target exists, or its content is fetched, verified
\* and copied, or a step of that fails with the target half written.
stage_file ==
  /\ stage = "writing" /\ todo # << >>
  /\ LET path == Head(todo)[1]
         file == Head(todo)[2]
     IN \/ /\ path \in DOMAIN disk
           /\ disk' = OnConflict(path)
           /\ stage' = "failed" /\ written' = {} /\ todo' = << >>
        \/ /\ path \notin DOMAIN disk
           /\ disk' = (path :> file) @@ disk
           /\ written' = written \cup {path}
           /\ todo' = Tail(todo) /\ UNCHANGED stage
        \/ /\ path \notin DOMAIN disk
           /\ disk' = Cleaned(written \cup {path})
           /\ stage' = "failed" /\ written' = {} /\ todo' = << >>
  /\ UNCHANGED <<active, owner, runs>>

all_staged ==
  /\ stage = "writing" /\ todo = << >>
  /\ stage' = "staged" /\ written' = {}
  /\ UNCHANGED <<active, owner, runs, disk, todo>>

\* The attempt ends; another one has a workspace of its own.
leave_workspace ==
  /\ stage \in {"staged", "failed"}
  /\ stage' = "idle" /\ disk' = NoDisk
  /\ UNCHANGED <<active, owner, runs, todo, written>>

Unbound == {f \in Files : owner[f] = 0}
Requests == {SetToSortSeq(S, <) : S \in {T \in SUBSET Unbound : Cardinality(T) <= MaxPrimary}}

Next ==
  \/ MayAdmit /\ \E requested \in Requests, wants \in BOOLEAN :
       \/ chat_stream(requested, wants, FALSE)
       \/ ~wants /\ chat_stream(requested, FALSE, TRUE)
       \/ create_run(requested, wants)
  \/ \E r \in DOMAIN runs : copy_run(r)
  \/ \E found \in {{}, {<<"a">>}} : authorize_files(found)
  \/ delete_session \/ stage_file \/ all_staged \/ leave_workspace

Spec == Init /\ [][Next]_vars

-----------------------------------------------------------------------------
(* Properties. *)

\* f was uploaded, or sent, after g.
Later(f, g) == f > g
LaterSent(f, g) == owner[f] > owner[g] \/ (owner[f] = owner[g] /\ f > g)

\* A snapshot holds every file sent with the run, and no file of the history
\* while a newer one is left out; a Skill that wants a file gets the newest
\* of each name, however many others lie between (file_continuity.py).
FilesAreChosen ==
  \A i \in DOMAIN runs :
    LET row == runs[i]
        files == Range(row.files)
        sent == {f \in Files : owner[f] = i}
        history == {f \in Files : owner[f] \in 1..(i - 1)}
        kept == files \ (IF row.source = 0 THEN sent ELSE Range(row.primary))
    IN /\ sent \subseteq files
       /\ Len(row.files) = Cardinality(files)
       /\ files \subseteq sent \cup history
       /\ kept # {} => Cardinality(files) <= MaxPrimary
       /\ (row.profile /\ row.source = 0) =>
            \A f \in kept, g \in history : Later(g, f) => g \in files
       /\ row.source # 0 =>
            \A f \in kept, g \in history : LaterSent(g, f) => g \in files
       /\ (row.wants /\ ~row.profile) => files # {}
       /\ (row.wants /\ ~row.profile /\ row.source = 0 /\ sent = {}) =>
            LET fit == history \cap Fits
                best == {f \in fit : \A g \in fit : NameOf[g] = NameOf[f] => g <= f}
            IN files = {f \in best : Cardinality({g \in best : g > f}) < MaxPrimary}

\* The worker stages all of a run's files, each at a path of its own, or none
\* of them, and they are the ones the executor is told of
\* (materialize_run_context_files, ContextPlanner).
InputsAreWhole ==
  LET mine == {p \in DOMAIN disk : disk[p] # 0}
  IN /\ \A i, j \in DOMAIN todo : i # j => todo[i][1] # todo[j][1]
     /\ stage = "failed" => mine = {}
     /\ stage = "staged" =>
          /\ {disk[p] : p \in mine} = Range(runs[Len(runs)].files)
          /\ Cardinality(mine) = runs[Len(runs)].count
          /\ runs[Len(runs)].names = {NameOf[f] : f \in {disk[p] : p \in mine}}

\* A file found in the workspace stays as it was (materialize_run_context_files).
StagingStep ==
  \A p \in DOMAIN disk : (disk[p] = 0 /\ stage' # "idle") =>
    (p \in DOMAIN disk' /\ disk'[p] = 0)
=============================================================================
