--------------------------- MODULE BackupRestore ---------------------------
(***************************************************************************)
(* What is in a full backup and what a restore makes of it.  The tables    *)
(* are read one after another, each as it is committed at that moment,     *)
(* while payloads are stored, passes run and waypoints come and go; a      *)
(* restore puts all of them back at once and sets the id sequences to the  *)
(* rows it finds.                                                          *)
(*                                                                         *)
(* Four tables stand for all: rows, waypoints, the checkpoint and trips,   *)
(* in the order of the backup.  A row carries the payload it was stored    *)
(* for, since its id may be given again; the checkpoint carries, as a      *)
(* history, the payloads its odometer holds.  A trip is the waypoint it    *)
(* refers to.  The pass in detail is OdometerProcessor.                    *)
(***************************************************************************)
EXTENDS FiniteSetsExt, Integers, Sequences

CONSTANTS
  Sites,        (* waypoints a user may have                               *)
  MaxPayloads,  (* bound on payloads                                       *)
  MaxAdded,     (* bound on waypoints saved                                *)
  MaxBackups,   (* bound on backups begun                                  *)
  MaxRestores   (* bound on restores                                       *)

ASSUME BoundsAssumption ==
  /\ MaxPayloads \in Nat /\ MaxAdded \in Nat
  /\ MaxBackups \in Nat /\ MaxRestores \in Nat

VARIABLES
  db,        (* the committed tables                                       *)
  sequence,  (* the last id given to a row                                 *)
  sent,      (* the last payload                                           *)
  pass,      (* the processing pass: what it has loaded, uncommitted       *)
  job,       (* the backup being read; it holds _BACKUP_RESTORE_LOCK       *)
  files,     (* the last file of each kind: downloaded, or automatic       *)
  added, backups, restores    (* how many there were                       *)

vars == << db, sequence, sent, pass, job, files, added, backups, restores >>

Kinds  == {"download", "automatic"}
NoPass == [open |-> FALSE, last |-> 0, fresh |-> {}]

(* ahead, a history: a restore left the checkpoint above the row ids.      *)
EmptyTables ==
  [ locations  |-> {},
    sites      |-> {},
    checkpoint |-> [last |-> 0, counted |-> {}, ahead |-> FALSE],
    trips      |-> {} ]

(* saved, a history: a waypoint was saved while the file was read.         *)
NoFile == [whole |-> FALSE, saved |-> FALSE, tables |-> EmptyTables]
NoJob  == [kind |-> "none", read |-> 0, saved |-> FALSE, tables |-> EmptyTables]

Init ==
  /\ db = EmptyTables
  /\ sequence = 0 /\ sent = 0
  /\ pass = NoPass
  /\ job = NoJob
  /\ files = [k \in Kinds |-> NoFile]
  /\ added = 0 /\ backups = 0 /\ restores = 0

-----------------------------------------------------------------------------
(* The application meanwhile.                                              *)

RowIds(rows) == {r.id : r \in rows}

(* A payload is stored under the next id; an id that is taken is an error, *)
(* and the sequence stays where it is by then.                             *)
StoreRow ==
  /\ sent < MaxPayloads
  /\ sent' = sent + 1
  /\ sequence' = sequence + 1
  /\ db' = IF sequence + 1 \in RowIds(db.locations)
           THEN db
           ELSE [db EXCEPT !.locations = @ \union {[id |-> sequence + 1, payload |-> sent + 1]}]
  /\ UNCHANGED << pass, job, files, added, backups, restores >>

NewRows == {r \in db.locations : r.id > db.checkpoint.last}

(* A pass loads the rows above the checkpoint; one that finds none changes *)
(* nothing here.  From here to its commit its transaction is open.         *)
LoadPass ==
  /\ ~ pass.open
  /\ NewRows # {}
  /\ pass' = [open |-> TRUE, last |-> Max(RowIds(NewRows)),
              fresh |-> {r.payload : r \in NewRows}]
  /\ UNCHANGED << db, sequence, sent, job, files, added, backups, restores >>

(* Checkpoint and trips of the first day in one commit.                    *)
CommitPass ==
  /\ pass.open
  /\ \E trips \in {{}} \union {{s} : s \in db.sites} :
       db' = [db EXCEPT !.checkpoint.last = pass.last,
                        !.checkpoint.counted = @ \union pass.fresh,
                        !.trips = @ \union trips]
  /\ pass' = NoPass
  /\ UNCHANGED << sequence, sent, job, files, added, backups, restores >>

(* Any error of the pass: its transaction is rolled back.                  *)
FailPass ==
  /\ pass.open
  /\ pass' = NoPass
  /\ UNCHANGED << db, sequence, sent, job, files, added, backups, restores >>

(* Retention deletes processed rows by the time the phone recorded them,   *)
(* which is not the order of their ids: any of them may go.                *)
Processed == {r \in db.locations : r.id <= db.checkpoint.last}

Purge ==
  /\ \E gone \in SUBSET Processed \ {{}} : db' = [db EXCEPT !.locations = @ \ gone]
  /\ UNCHANGED << sequence, sent, pass, job, files, added, backups, restores >>

SaveSite(s) ==
  /\ added < MaxAdded
  /\ s \notin db.sites
  /\ db' = [db EXCEPT !.sites = @ \union {s}]
  /\ job' = [job EXCEPT !.saved = job.kind # "none"]
  /\ added' = added + 1
  /\ UNCHANGED << sequence, sent, pass, files, backups, restores >>

(* The trips of a deleted waypoint are detached from it first.             *)
DeleteSite(s) ==
  /\ s \in db.sites
  /\ db' = [db EXCEPT !.sites = @ \ {s}, !.trips = @ \ {s}]
  /\ UNCHANGED << sequence, sent, pass, job, files, added, backups, restores >>

-----------------------------------------------------------------------------
(* A table follows those its rows refer to.  The variant has them the      *)
(* other way round.                                                        *)
TablesReversed == << "trips", "checkpoint", "sites", "locations" >>
Tables         == << "locations", "sites", "checkpoint", "trips" >>

(* create_full_backup, for a download or for the automatic backups.  The   *)
(* lock keeps backups and restores apart, not the rest of the application. *)
BeginBackup(kind) ==
  /\ job.kind = "none"
  /\ backups < MaxBackups
  /\ backups' = backups + 1
  /\ job' = [NoJob EXCEPT !.kind = kind]
  /\ UNCHANGED << db, sequence, sent, pass, files, added, restores >>

BeginDownload  == BeginBackup("download")
BeginAutomatic == BeginBackup("automatic")

ReadTable ==
  LET table == Tables[job.read + 1]
  IN /\ job.kind # "none"
     /\ job.read < Len(Tables)
     /\ job' = [job EXCEPT !.read = @ + 1, !.tables[table] = db[table]]
     /\ UNCHANGED << db, sequence, sent, pass, files, added, backups, restores >>

FinishBackup ==
  /\ job.read = Len(Tables)
  /\ files' = [files EXCEPT ![job.kind] =
                 [whole |-> TRUE, saved |-> job.saved, tables |-> job.tables]]
  /\ job' = NoJob
  /\ UNCHANGED << db, sequence, sent, pass, added, backups, restores >>

(* Any error, or the end of the process: there is no file.                 *)
BackupFails ==
  /\ job.kind # "none"
  /\ job' = NoJob
  /\ UNCHANGED << db, sequence, sent, pass, files, added, backups, restores >>

-----------------------------------------------------------------------------
(* _lock_postgresql_tables: the transaction of a pass that has read a      *)
(* table is waited for.  The variant leaves the lock out.                  *)
TablesFreeAlways == TRUE
TablesFree       == ~ pass.open

(* _reset_postgresql_sequences: the highest id restored; an empty table    *)
(* starts anew.  The variants count the rows, and skip an id.              *)
LastIdByCount(rows)  == Cardinality(rows)
LastIdSkipping(rows) == IF rows = {} THEN 0 ELSE Max(RowIds(rows)) + 1
LastId(rows)         == IF rows = {} THEN 0 ELSE Max(RowIds(rows))

(* _validated_table_rows: only a whole file is restored.                   *)
Valid(file) == file.whole

(* A trip may refer only to a waypoint of its own file.                    *)
ReferencesHold(tables) == tables.trips \subseteq tables.sites

(* All tables are replaced and committed at once, or none is.              *)
RestoreTables(tables) ==
  /\ ReferencesHold(tables)
  /\ db' = [tables EXCEPT !.checkpoint.ahead =
              @ \/ tables.checkpoint.last > LastId(tables.locations)]
  /\ sequence' = LastId(tables.locations)

RollBack(tables) == ~ ReferencesHold(tables) /\ UNCHANGED << db, sequence >>

(* restore_full_backup, behind the checks of either form: the request      *)
(* ends with what it replaced, or with nothing changed.                    *)
Restore(kind) ==
  /\ restores < MaxRestores
  /\ restores' = restores + 1
  /\ job.kind = "none"
  /\ TablesFree
  /\ Valid(files[kind])
  /\ RestoreTables(files[kind].tables) \/ RollBack(files[kind].tables)
  /\ UNCHANGED << sent, pass, job, files, added, backups >>

RestoreUploaded == Restore("download")

(* read_automatic_backup_content: the newest file is never pruned.         *)
RestoreRetained == Restore("automatic")

Next ==
  \/ StoreRow \/ LoadPass \/ CommitPass \/ FailPass \/ Purge
  \/ \E s \in Sites : SaveSite(s) \/ DeleteSite(s)
  \/ BeginDownload \/ BeginAutomatic \/ RestoreUploaded \/ RestoreRetained
  \/ ReadTable \/ FinishBackup \/ BackupFails

Spec == Init /\ [][Next]_vars

-----------------------------------------------------------------------------
IsTables(t) ==
  /\ t.locations \subseteq [id : 1..MaxPayloads, payload : 1..sent]
  /\ t.sites \subseteq Sites /\ t.trips \subseteq Sites
  /\ t.checkpoint.last \in 0..MaxPayloads /\ t.checkpoint.counted \subseteq 1..sent
  /\ t.checkpoint.ahead \in BOOLEAN

(* Every variable has its type.                                            *)
TypeOK ==
  /\ IsTables(db) /\ IsTables(job.tables) /\ \A k \in Kinds : IsTables(files[k].tables)
  /\ sequence \in 0..MaxPayloads /\ sent \in 0..MaxPayloads
  /\ pass.open \in BOOLEAN /\ pass.last \in 0..MaxPayloads /\ pass.fresh \subseteq 1..sent
  /\ job.kind \in Kinds \union {"none"} /\ job.read \in 0..Len(Tables) /\ job.saved \in BOOLEAN
  /\ \A k \in Kinds : files[k].whole \in BOOLEAN /\ files[k].saved \in BOOLEAN
  /\ added \in 0..MaxAdded /\ backups \in 0..MaxBackups /\ restores \in 0..MaxRestores

(* Whatever is restored over whatever else was done since: the next id is  *)
(* free, so that the next payload gets a row; and a row at or below the    *)
(* checkpoint is held by the odometer, so that no stored row is left out   *)
(* by every later pass.  The exception is a restore whose checkpoint       *)
(* points above all its rows, because they were purged, or because one was *)
(* stored and counted while the tables were read: the ids given next are   *)
(* at or below the checkpoint, and no pass takes their rows.               *)
RowsReachOdometer ==
  /\ \A r \in db.locations : r.id <= sequence
  /\ ~ db.checkpoint.ahead =>
       \A r \in db.locations :
         r.id <= db.checkpoint.last => r.payload \in db.checkpoint.counted

(* No pass takes a payload as new that the odometer holds already, also    *)
(* when a restore gave back rows, or a checkpoint, of another time.        *)
CountedOnce == pass.open => pass.fresh \intersect db.checkpoint.counted = {}

(* Though its tables are read at different moments, a file can be restored *)
(* unless a waypoint was saved while it was read: its trips refer to       *)
(* waypoints it holds.                                                     *)
FilesRestorable ==
  \A k \in Kinds :
    files[k].whole /\ ~ files[k].saved => ReferencesHold(files[k].tables)
=============================================================================
