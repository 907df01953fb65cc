------------------------ MODULE BackupRestoreProofs ------------------------
(***************************************************************************)
(* Theorems about BackupRestore, for any number of payloads, waypoints,    *)
(* backups and restores: a restored odometer counts no payload twice, the  *)
(* rows stored reach it, and files can be restored.                        *)
(***************************************************************************)
EXTENDS BackupRestore, TLAPS, WellFoundedInduction

(* Tables whose ids and payloads go up to n.                               *)
TablesType(n) ==
  [ locations  : SUBSET [id : 1..n, payload : 1..n],
    sites      : SUBSET Sites,
    checkpoint : [last : 0..n, counted : SUBSET (1..n), ahead : BOOLEAN],
    trips      : SUBSET Sites ]

JobType(n)  == [kind : Kinds \union {"none"}, read : 0..4, saved : BOOLEAN, tables : TablesType(n)]
FileType(n) == [whole : BOOLEAN, saved : BOOLEAN, tables : TablesType(n)]
PassType(n) == [open : BOOLEAN, last : 0..n, fresh : SUBSET (1..n)]

Typed ==
  /\ sent \in 0..MaxPayloads /\ sequence \in 0..sent
  /\ db \in TablesType(sent)
  /\ pass \in PassType(sent)
  /\ job \in JobType(sent)
  /\ files \in [Kinds -> FileType(sent)]
  /\ added \in 0..MaxAdded /\ backups \in 0..MaxBackups /\ restores \in 0..MaxRestores

(* Rows and checkpoint agree: a row above it is not in the odometer, a row *)
(* up to it is, and no payload has two rows.                               *)
Coherent(t) ==
  /\ \A r \in t.locations : r.id > t.checkpoint.last => r.payload \notin t.checkpoint.counted
  /\ ~ t.checkpoint.ahead =>
       \A r \in t.locations : r.id <= t.checkpoint.last => r.payload \in t.checkpoint.counted
  /\ \A r, q \in t.locations : r.payload = q.payload => r = q

(* The ids given next are above all rows and, but for the exception, above *)
(* the checkpoint.                                                         *)
IdsAhead ==
  /\ \A r \in db.locations : r.id <= sequence
  /\ ~ db.checkpoint.ahead => db.checkpoint.last <= sequence

(* An open pass holds the rows between the checkpoint and the last row it  *)
(* has loaded, and none of them is in the odometer.                        *)
PassHolds ==
  pass.open =>
    /\ pass.fresh \intersect db.checkpoint.counted = {}
    /\ db.checkpoint.last < pass.last /\ pass.last <= sequence
    /\ \A r \in db.locations : r.id > pass.last => r.payload \notin pass.fresh
    /\ \A r \in db.locations :
         db.checkpoint.last < r.id /\ r.id <= pass.last => r.payload \in pass.fresh

(* The rows a backup has read, against the tables that go on: none has     *)
(* become another, none above the checkpoint is counted or about to be     *)
(* counted below it, and none is gone uncounted.                           *)
RowsReadHold ==
  /\ job.kind = "none" => job.tables.locations = {}
  /\ \A r \in job.tables.locations :
       /\ \A q \in db.locations \union job.tables.locations : r.payload = q.payload => r = q
       /\ r.id > db.checkpoint.last => r.payload \notin db.checkpoint.counted
       /\ ~ db.checkpoint.ahead => r.payload \in db.checkpoint.counted \/ r \in db.locations
       /\ pass.open /\ r.id > pass.last => r.payload \notin pass.fresh

Whole ==
  /\ Coherent(db)
  /\ job.read >= 3 => Coherent(job.tables)
  /\ \A k \in Kinds : files[k].whole => Coherent(files[k].tables)

IInv == Whole /\ IdsAhead /\ PassHolds /\ RowsReadHold

(* Trips refer to waypoints, in the tables and in what a backup has read.  *)
SitesRead ==
  /\ db.trips \subseteq db.sites
  /\ job.kind = "none" => job.read = 0
  /\ ~ job.saved /\ job.read >= 2 => db.sites \subseteq job.tables.sites
  /\ ~ job.saved /\ job.read >= 4 => ReferencesHold(job.tables)
  /\ FilesRestorable

-----------------------------------------------------------------------------
(* The highest id of some rows.                                            *)

(* A non-empty set of natural numbers has a smallest one.                  *)
LEMMA SmallestOf ==
  ASSUME NEW S, S \subseteq Nat, S # {}
  PROVE  \E x \in S : \A y \in S : x <= y
  <1> DEFINE R == {ss \in Nat \X Nat : ss[1] < ss[2]}
  <1>1. IsWellFoundedOn(R, Nat)
    BY NatLessThanWellFounded DEF OpToRel
  <1>2. \A x, y \in Nat : <<y, x>> \in R <=> y < x
    OBVIOUS
  <1> HIDE DEF R
  <1>3. \E x \in S : \A y \in S : ~ (<<y, x>> \in R)
    BY <1>1, WFMin
  <1>4. \A x, y \in Nat : ~ (y < x) => x <= y
    OBVIOUS
  <1> QED
    BY <1>2, <1>3, <1>4

(* A bounded one has a largest, which Max finds.                           *)
LEMMA MaxOf ==
  ASSUME NEW n \in Nat, NEW S, S \subseteq 0..n, S # {}
  PROVE  Max(S) \in S /\ \A y \in S : Max(S) >= y
  <1> DEFINE T == {n - x : x \in S}
  <1>1. T \subseteq Nat /\ T # {}
    <2>1. \A x \in S : n - x \in Nat
      OBVIOUS
    <2>2. PICK x \in S : TRUE
      OBVIOUS
    <2> QED
      BY <2>1, <2>2
  <1>2. PICK t \in T : \A u \in T : t <= u
    BY <1>1, SmallestOf
  <1>3. PICK x \in S : t = n - x
    OBVIOUS
  <1>4. \A y \in S : x >= y
    <2> TAKE y \in S
    <2>1. n - y \in T
      OBVIOUS
    <2>2. n - x <= n - y
      BY <1>2, <1>3, <2>1
    <2> QED
      BY <2>2
  <1> QED
    BY <1>4 DEF Max

(* The highest id of rows is a bound, and 0 when there are none.           *)
LEMMA LastIdBounds ==
  ASSUME NEW n \in Nat, NEW rows, rows \subseteq [id : 1..n, payload : 1..n]
  PROVE  LastId(rows) \in 0..n /\ \A r \in rows : r.id <= LastId(rows)
  <1>1. CASE rows = {}
    BY <1>1 DEF LastId
  <1>2. CASE rows # {}
    <2>1. RowIds(rows) \subseteq 0..n /\ RowIds(rows) # {}
      BY <1>2 DEF RowIds
    <2>2. Max(RowIds(rows)) \in RowIds(rows) /\ \A y \in RowIds(rows) : Max(RowIds(rows)) >= y
      BY <2>1, MaxOf
    <2>3. \A r \in rows : r.id \in RowIds(rows)
      BY DEF RowIds
    <2> QED
      BY <1>2, <2>1, <2>2, <2>3 DEF LastId
  <1> QED
    BY <1>1, <1>2

-----------------------------------------------------------------------------
(* Types.                                                                  *)

(* What is typed for some payloads is typed for more.                      *)
LEMMA TypesGrow ==
  ASSUME NEW n \in Nat, NEW m \in Nat, n <= m
  PROVE  /\ TablesType(n) \subseteq TablesType(m) /\ PassType(n) \subseteq PassType(m)
         /\ JobType(n) \subseteq JobType(m) /\ FileType(n) \subseteq FileType(m)
  <1>1. 1..n \subseteq 1..m /\ 0..n \subseteq 0..m
    OBVIOUS
  <1>2. [id : 1..n, payload : 1..n] \subseteq [id : 1..m, payload : 1..m]
    BY <1>1
  <1>3. SUBSET [id : 1..n, payload : 1..n] \subseteq SUBSET [id : 1..m, payload : 1..m]
    BY <1>2
  <1>4. SUBSET (1..n) \subseteq SUBSET (1..m)
    BY <1>1
  <1>5. [last : 0..n, counted : SUBSET (1..n), ahead : BOOLEAN]
          \subseteq [last : 0..m, counted : SUBSET (1..m), ahead : BOOLEAN]
    BY <1>1, <1>4
  <1>6. TablesType(n) \subseteq TablesType(m)
    BY <1>3, <1>5 DEF TablesType
  <1> QED
    BY <1>1, <1>4, <1>6 DEF PassType, JobType, FileType

(* The initial state is typed.                                             *)
LEMMA InitTyped == Init => Typed
  <1> SUFFICES ASSUME Init PROVE Typed
    OBVIOUS
  <1>1. sent = 0 /\ sequence = 0 /\ added = 0 /\ backups = 0 /\ restores = 0
    BY DEF Init
  <1>2. EmptyTables \in TablesType(0)
    BY DEF EmptyTables, TablesType
  <1>3. NoPass \in PassType(0)
    BY DEF NoPass, PassType
  <1>4. NoJob \in JobType(0)
    BY <1>2 DEF NoJob, JobType
  <1>5. NoFile \in FileType(0)
    BY <1>2 DEF NoFile, FileType
  <1> QED
    BY <1>1, <1>2, <1>3, <1>4, <1>5, BoundsAssumption DEF Init, Typed

(* A payload is stored.                                                    *)
LEMMA StoreRowTyped == Typed /\ StoreRow => Typed'
  <1> SUFFICES ASSUME Typed, StoreRow PROVE Typed'
    OBVIOUS
  <1> DEFINE row == [id |-> sequence + 1, payload |-> sent + 1]
  <1>1. /\ sent \in Nat /\ sequence \in Nat /\ sent' = sent + 1 /\ sequence' = sequence + 1
        /\ sent' \in 0..MaxPayloads /\ sequence' \in 0..sent'
    BY BoundsAssumption DEF Typed, StoreRow
  <1>2. /\ TablesType(sent) \subseteq TablesType(sent') /\ PassType(sent) \subseteq PassType(sent')
        /\ JobType(sent) \subseteq JobType(sent') /\ FileType(sent) \subseteq FileType(sent')
    BY <1>1, TypesGrow
  <1>3. db \in TablesType(sent')
    BY <1>2 DEF Typed
  <1>4. row \in [id : 1..sent', payload : 1..sent']
    BY <1>1
  <1>5. [db EXCEPT !.locations = db.locations \union {row}] \in TablesType(sent')
    BY <1>3, <1>4 DEF TablesType
  <1>6. db' \in TablesType(sent')
    BY <1>3, <1>5 DEF StoreRow
  <1> QED
    BY <1>1, <1>2, <1>6 DEF Typed, StoreRow

(* A pass loads the rows above the checkpoint.                             *)
LEMMA LoadedRows ==
  ASSUME Typed, LoadPass
  PROVE  /\ pass'.open /\ pass'.last \in RowIds(NewRows)
         /\ pass'.last \in 1..sent /\ pass'.last > db.checkpoint.last
         /\ \A r \in NewRows : r.id <= pass'.last
         /\ pass'.fresh = {r.payload : r \in NewRows} /\ pass'.fresh \subseteq 1..sent
         /\ pass' \in PassType(sent)
  <1>1. /\ sent \in Nat /\ db.checkpoint.last \in Nat
        /\ db.locations \subseteq [id : 1..sent, payload : 1..sent]
    BY BoundsAssumption DEF Typed, TablesType
  <1>2. RowIds(NewRows) \subseteq 0..sent /\ RowIds(NewRows) # {}
    BY <1>1 DEF RowIds, NewRows, LoadPass
  <1>3. /\ Max(RowIds(NewRows)) \in RowIds(NewRows)
        /\ \A y \in RowIds(NewRows) : Max(RowIds(NewRows)) >= y
    BY <1>1, <1>2, MaxOf
  <1>4. pass' = [open |-> TRUE, last |-> Max(RowIds(NewRows)),
                 fresh |-> {r.payload : r \in NewRows}]
    BY DEF LoadPass
  <1>5. \A r \in NewRows : r.id \in RowIds(NewRows)
    BY DEF RowIds
  <1>6. \A i \in RowIds(NewRows) : i \in 1..sent /\ i > db.checkpoint.last
    BY <1>1 DEF RowIds, NewRows
  <1>7. {r.payload : r \in NewRows} \subseteq 1..sent
    BY <1>1 DEF NewRows
  <1>8. \A r \in NewRows : r.id \in 1..sent
    BY <1>1 DEF NewRows
  <1>9. pass'.last \in 1..sent /\ \A r \in NewRows : r.id <= pass'.last
    BY <1>3, <1>4, <1>5, <1>6, <1>8
  <1> QED
    BY <1>3, <1>4, <1>6, <1>7, <1>9, <1>1 DEF PassType

(* A pass, and the purge behind it.                                        *)
LEMMA PassTyped ==
  Typed /\ (LoadPass \/ CommitPass \/ FailPass \/ Purge) => Typed'
  <1> SUFFICES ASSUME Typed, LoadPass \/ CommitPass \/ FailPass \/ Purge PROVE Typed'
    OBVIOUS
  <1>1. sent \in Nat /\ NoPass \in PassType(sent)
    BY BoundsAssumption DEF Typed, NoPass, PassType
  <1>2. CASE LoadPass
    BY <1>2, LoadedRows DEF Typed, LoadPass
  <1>3. CASE CommitPass
    <2>1. PICK trips \in {{}} \union {{s} : s \in db.sites} :
            db' = [db EXCEPT !.checkpoint.last = pass.last,
                             !.checkpoint.counted = @ \union pass.fresh,
                             !.trips = @ \union trips]
      BY <1>3 DEF CommitPass
    <2>2. /\ db \in TablesType(sent) /\ pass.last \in 0..sent /\ pass.fresh \subseteq 1..sent
      BY DEF Typed, PassType
    <2>3. trips \subseteq Sites
      BY <2>2 DEF TablesType
    <2>4. db' \in TablesType(sent)
      BY <2>1, <2>2, <2>3 DEF TablesType
    <2> QED
      BY <1>1, <1>3, <2>4 DEF Typed, CommitPass
  <1>4. CASE FailPass
    BY <1>1, <1>4 DEF Typed, FailPass
  <1>5. CASE Purge
    <2>1. PICK gone \in SUBSET Processed : db' = [db EXCEPT !.locations = @ \ gone]
      BY <1>5 DEF Purge
    <2>2. db' \in TablesType(sent)
      BY <2>1 DEF Typed, TablesType
    <2> QED
      BY <1>5, <2>2 DEF Typed, Purge
  <1> QED
    BY <1>2, <1>3, <1>4, <1>5

(* Waypoints are saved and deleted.                                        *)
LEMMA SitesTyped ==
  ASSUME Typed, NEW s \in Sites, SaveSite(s) \/ DeleteSite(s)
  PROVE  Typed'
  <1>1. CASE SaveSite(s)
    <2>1. db' \in TablesType(sent)
      BY <1>1 DEF Typed, TablesType, SaveSite
    <2>2. job' \in JobType(sent)
      BY <1>1 DEF Typed, JobType, SaveSite
    <2>3. added' \in 0..MaxAdded
      BY <1>1, BoundsAssumption DEF Typed, SaveSite
    <2> QED
      BY <1>1, <2>1, <2>2, <2>3 DEF Typed, SaveSite
  <1>2. CASE DeleteSite(s)
    <2>1. db' \in TablesType(sent)
      BY <1>2 DEF Typed, TablesType, DeleteSite
    <2> QED
      BY <1>2, <2>1 DEF Typed, DeleteSite
  <1> QED
    BY <1>1, <1>2

(* Which table a backup reads next.                                        *)
LEMMA TablesInOrder ==
  /\ Len(Tables) = 4 /\ Tables[1] = "locations" /\ Tables[2] = "sites"
  /\ Tables[3] = "checkpoint" /\ Tables[4] = "trips"
  BY DEF Tables

(* A field named by a value is the field of that name.                     *)
LEMMA FieldNamed ==
  /\ \A t, x : [t EXCEPT !["locations"] = x] = [t EXCEPT !.locations = x]
  /\ \A t, x : [t EXCEPT !["sites"] = x] = [t EXCEPT !.sites = x]
  /\ \A t, x : [t EXCEPT !["checkpoint"] = x] = [t EXCEPT !.checkpoint = x]
  /\ \A t, x : [t EXCEPT !["trips"] = x] = [t EXCEPT !.trips = x]
  /\ \A t : /\ t["locations"] = t.locations /\ t["sites"] = t.sites
            /\ t["checkpoint"] = t.checkpoint /\ t["trips"] = t.trips
  OBVIOUS

(* A backup reads the next table.                                          *)
LEMMA ReadTableCases ==
  ASSUME Typed, ReadTable
  PROVE  /\ job.kind # "none" /\ job'.kind = job.kind /\ job'.saved = job.saved
         /\ job'.read = job.read + 1 /\ job' \in JobType(sent)
         /\ \/ /\ job.read = 0
               /\ job'.tables = [job.tables EXCEPT !.locations = db.locations]
            \/ /\ job.read = 1
               /\ job'.tables = [job.tables EXCEPT !.sites = db.sites]
            \/ /\ job.read = 2
               /\ job'.tables = [job.tables EXCEPT !.checkpoint = db.checkpoint]
            \/ /\ job.read = 3
               /\ job'.tables = [job.tables EXCEPT !.trips = db.trips]
  <1> DEFINE name == Tables[job.read + 1]
             read == [job.tables EXCEPT ![name] = db[name]]
             next == [job EXCEPT !.read = job.read + 1]
  <1>1. job \in JobType(sent) /\ job.tables \in TablesType(sent) /\ db \in TablesType(sent)
    BY DEF Typed, JobType
  <1>2. job.kind # "none" /\ job.read \in 0..3
    BY <1>1, TablesInOrder DEF ReadTable, JobType
  <1>3. job' = [job EXCEPT !.read = job.read + 1, !.tables[name] = db[name]]
    BY DEF ReadTable
  <1> HIDE DEF name
  <1>4. job' = [next EXCEPT !.tables = read]
    BY <1>3
  <1>5. /\ next \in JobType(sent) /\ next.read = job.read + 1
        /\ next.kind = job.kind /\ next.saved = job.saved
    BY <1>1, <1>2 DEF JobType
  <1> HIDE DEF read, next
  <1>6. /\ job'.tables = read /\ job'.read = next.read
        /\ job'.kind = next.kind /\ job'.saved = next.saved
    BY <1>4, <1>5 DEF JobType
  <1>7. read \in TablesType(sent) => job' \in JobType(sent)
    BY <1>4, <1>5 DEF JobType
  <1>8. CASE job.read = 0
    <2>1. name = "locations"
      BY <1>8, TablesInOrder DEF name
    <2>2. read = [job.tables EXCEPT !.locations = db.locations]
      BY <2>1, FieldNamed DEF read
    <2>3. read \in TablesType(sent)
      BY <1>1, <2>2 DEF TablesType
    <2> QED
      BY <1>2, <1>5, <1>6, <1>7, <1>8, <2>2, <2>3
  <1>9. CASE job.read = 1
    <2>1. name = "sites"
      BY <1>9, TablesInOrder DEF name
    <2>2. read = [job.tables EXCEPT !.sites = db.sites]
      BY <2>1, FieldNamed DEF read
    <2>3. read \in TablesType(sent)
      BY <1>1, <2>2 DEF TablesType
    <2> QED
      BY <1>2, <1>5, <1>6, <1>7, <1>9, <2>2, <2>3
  <1>10. CASE job.read = 2
    <2>1. name = "checkpoint"
      BY <1>10, TablesInOrder DEF name
    <2>2. read = [job.tables EXCEPT !.checkpoint = db.checkpoint]
      BY <2>1, FieldNamed DEF read
    <2>3. read \in TablesType(sent)
      BY <1>1, <2>2 DEF TablesType
    <2> QED
      BY <1>2, <1>5, <1>6, <1>7, <1>10, <2>2, <2>3
  <1>11. CASE job.read = 3
    <2>1. name = "trips"
      BY <1>11, TablesInOrder DEF name
    <2>2. read = [job.tables EXCEPT !.trips = db.trips]
      BY <2>1, FieldNamed DEF read
    <2>3. read \in TablesType(sent)
      BY <1>1, <2>2 DEF TablesType
    <2> QED
      BY <1>2, <1>5, <1>6, <1>7, <1>11, <2>2, <2>3
  <1> QED
    BY <1>2, <1>8, <1>9, <1>10, <1>11

(* Backups.                                                                *)
LEMMA BackupTyped ==
  Typed /\ (BeginDownload \/ BeginAutomatic \/ ReadTable \/ FinishBackup \/ BackupFails) => Typed'
  <1> SUFFICES ASSUME Typed,
                      BeginDownload \/ BeginAutomatic \/ ReadTable \/ FinishBackup \/ BackupFails
               PROVE  Typed'
    OBVIOUS
  <1>1. EmptyTables \in TablesType(sent)
    BY BoundsAssumption DEF Typed, EmptyTables, TablesType
  <1>2. NoJob \in JobType(sent)
    BY <1>1 DEF NoJob, JobType
  <1>3. ASSUME NEW kind \in Kinds, BeginBackup(kind) PROVE Typed'
    <2>1. [NoJob EXCEPT !.kind = kind] \in JobType(sent)
      BY <1>2 DEF JobType
    <2>2. backups' \in 0..MaxBackups
      BY <1>3, BoundsAssumption DEF Typed, BeginBackup
    <2> QED
      BY <1>3, <2>1, <2>2 DEF Typed, BeginBackup
  <1>4. CASE ReadTable
    <2>1. job' \in JobType(sent)
      BY <1>4, ReadTableCases
    <2> QED
      BY <1>4, <2>1 DEF Typed, ReadTable
  <1>5. CASE FinishBackup
    <2>1. [whole |-> TRUE, saved |-> job.saved, tables |-> job.tables] \in FileType(sent)
      BY DEF Typed, JobType, FileType
    <2>2. files' \in [Kinds -> FileType(sent)]
      BY <1>5, <2>1 DEF Typed, FinishBackup
    <2> QED
      BY <1>2, <1>5, <2>2 DEF Typed, FinishBackup
  <1>6. CASE BackupFails
    BY <1>2, <1>6 DEF Typed, BackupFails
  <1> QED
    BY <1>3, <1>4, <1>5, <1>6 DEF BeginDownload, BeginAutomatic, Kinds

(* A file is restored, or nothing changes.                                 *)
LEMMA RestoreTyped ==
  ASSUME Typed, NEW kind \in Kinds, Restore(kind)
  PROVE  Typed'
  <1> DEFINE t == files[kind].tables
  <1>1. t \in TablesType(sent) /\ sent \in Nat
    BY BoundsAssumption DEF Typed, FileType
  <1>2. LastId(t.locations) \in 0..sent
    BY <1>1, LastIdBounds DEF TablesType
  <1>3. restores' \in 0..MaxRestores
    BY BoundsAssumption DEF Typed, Restore
  <1>4. CASE RestoreTables(t)
    <2>1. db' = [t EXCEPT !.checkpoint.ahead = @ \/ t.checkpoint.last > LastId(t.locations)]
      BY <1>4 DEF RestoreTables
    <2>2. db' \in TablesType(sent)
      BY <1>1, <2>1 DEF TablesType
    <2> QED
      BY <1>2, <1>3, <1>4, <2>2 DEF Typed, Restore, RestoreTables
  <1>5. CASE RollBack(t)
    BY <1>3, <1>5 DEF Typed, Restore, RollBack
  <1> QED
    BY <1>4, <1>5 DEF Restore

(* No step changes a type.                                                 *)
LEMMA NextTyped == Typed /\ [Next]_vars => Typed'
  <1> SUFFICES ASSUME Typed, [Next]_vars PROVE Typed'
    OBVIOUS
  <1>1. CASE StoreRow
    BY <1>1, StoreRowTyped
  <1>2. CASE LoadPass \/ CommitPass \/ FailPass \/ Purge
    BY <1>2, PassTyped
  <1>3. CASE \E s \in Sites : SaveSite(s) \/ DeleteSite(s)
    BY <1>3, SitesTyped
  <1>4. CASE BeginDownload \/ BeginAutomatic \/ ReadTable \/ FinishBackup \/ BackupFails
    BY <1>4, BackupTyped
  <1>5. CASE RestoreUploaded \/ RestoreRetained
    BY <1>5, RestoreTyped DEF RestoreUploaded, RestoreRetained, Kinds
  <1>6. CASE UNCHANGED vars
    BY <1>6 DEF Typed, vars
  <1> QED
    BY <1>1, <1>2, <1>3, <1>4, <1>5, <1>6 DEF Next

(* The types hold throughout.                                              *)
LEMMA AlwaysTyped == Spec => []Typed
  BY InitTyped, NextTyped, PTL DEF Spec

(* Every variable has its type, for any bounds and any set of waypoints.   *)
THEOREM RestoreTypeCorrect == Spec => []TypeOK
  <1>1. Typed => TypeOK
    <2> SUFFICES ASSUME Typed PROVE TypeOK
      OBVIOUS
    <2>1. /\ sent \in Nat /\ MaxPayloads \in Nat /\ sent <= MaxPayloads
          /\ 1..sent \subseteq 1..MaxPayloads /\ 0..sent \subseteq 0..MaxPayloads
      BY BoundsAssumption DEF Typed
    <2>2. ASSUME NEW t \in TablesType(sent) PROVE IsTables(t)
      BY <2>1, <2>2 DEF TablesType, IsTables
    <2>3. /\ IsTables(db) /\ IsTables(job.tables)
          /\ \A k \in Kinds : IsTables(files[k].tables)
      BY <2>2 DEF Typed, JobType, FileType
    <2> QED
      BY <2>1, <2>3, TablesInOrder DEF Typed, TypeOK, PassType, JobType, FileType
  <1> QED
    BY <1>1, AlwaysTyped, PTL

-----------------------------------------------------------------------------
(* Rows, checkpoint, pass and what a backup has read.                      *)

(* What the types say of ids and payloads.                                 *)
LEMMA Numbers ==
  ASSUME Typed
  PROVE  /\ sent \in Nat /\ sequence \in Nat /\ sequence <= sent
         /\ db.checkpoint.last \in Nat /\ db.checkpoint.counted \subseteq 1..sent
         /\ pass.last \in Nat /\ pass.fresh \subseteq 1..sent
         /\ db.locations \subseteq [id : 1..sent, payload : 1..sent]
         /\ job.tables.locations \subseteq [id : 1..sent, payload : 1..sent]
         /\ \A r \in db.locations \union job.tables.locations :
              r.id \in Nat /\ r.payload \in 1..sent
  BY BoundsAssumption DEF Typed, TablesType, PassType, JobType

(* Everything agrees in empty tables.                                      *)
LEMMA InitHolds == Init => IInv /\ SitesRead
  <1> SUFFICES ASSUME Init PROVE IInv /\ SitesRead
    OBVIOUS
  <1>1. /\ db = EmptyTables /\ sequence = 0 /\ ~ pass.open /\ job = NoJob
        /\ \A k \in Kinds : ~ files[k].whole
    BY DEF Init, NoPass, NoFile
  <1>2. /\ EmptyTables.locations = {} /\ EmptyTables.checkpoint.last = 0
        /\ EmptyTables.trips = {} /\ EmptyTables.sites = {}
    BY DEF EmptyTables
  <1>3. job.tables.locations = {} /\ job.read = 0 /\ Coherent(EmptyTables)
    BY <1>1, <1>2 DEF NoJob, Coherent
  <1> QED
    BY <1>1, <1>2, <1>3
       DEF IInv, Whole, IdsAhead, PassHolds, RowsReadHold, SitesRead, FilesRestorable

(* A row is stored above all others, for a payload no table holds.         *)
LEMMA StoreRowKeeps ==
  ASSUME Typed, IInv, StoreRow
  PROVE  IInv'
  <1> DEFINE row == [id |-> sequence + 1, payload |-> sent + 1]
  <1>1. sequence + 1 \notin RowIds(db.locations)
    BY Numbers DEF IInv, IdsAhead, RowIds
  <1>2. /\ db' = [db EXCEPT !.locations = db.locations \union {row}]
        /\ sequence' = sequence + 1 /\ UNCHANGED << pass, job, files >>
    BY <1>1 DEF StoreRow
  <1>3. db'.locations = db.locations \union {row} /\ db'.checkpoint = db.checkpoint
    BY <1>2 DEF Typed, TablesType
  <1>4. row.id = sequence + 1 /\ row.payload = sent + 1
    OBVIOUS
  <1> HIDE DEF row
  <1>5. /\ sent + 1 \notin db.checkpoint.counted /\ sent + 1 \notin pass.fresh
        /\ \A r \in db.locations \union job.tables.locations : r.payload # sent + 1
    BY Numbers
  <1>6. Coherent(db')
    BY <1>3, <1>4, <1>5, Numbers DEF IInv, Whole, Coherent, IdsAhead
  <1>7. Whole'
    BY <1>2, <1>6 DEF IInv, Whole, Coherent
  <1>8. IdsAhead'
    BY <1>2, <1>3, <1>4, Numbers DEF IInv, IdsAhead
  <1>9. PassHolds'
    BY <1>2, <1>3, <1>4, <1>5, Numbers DEF IInv, PassHolds
  <1>10. RowsReadHold'
    BY <1>2, <1>3, <1>4, <1>5, Numbers DEF IInv, RowsReadHold
  <1> QED
    BY <1>7, <1>8, <1>9, <1>10 DEF IInv

(* A pass takes the rows above the checkpoint, which are not counted.      *)
LEMMA LoadPassKeeps ==
  ASSUME Typed, IInv, LoadPass
  PROVE  IInv'
  <1>1. UNCHANGED << db, sequence, job, files >>
    BY DEF LoadPass
  <1>2. Whole' /\ IdsAhead'
    BY <1>1 DEF IInv, Whole, Coherent, IdsAhead
  <1>3. NewRows \subseteq db.locations /\ \A r \in NewRows : r.id > db.checkpoint.last
    BY DEF NewRows
  <1>4. \A r \in db.locations : r.id > db.checkpoint.last => r \in NewRows
    BY DEF NewRows
  <1>5. PICK last \in NewRows : last.id = pass'.last
    BY LoadedRows DEF RowIds
  <1>6. \A r \in db.locations : r.id > pass'.last => r.payload \notin pass'.fresh
    <2> SUFFICES ASSUME NEW r \in db.locations, r.id > pass'.last, r.payload \in pass'.fresh
                 PROVE  FALSE
      OBVIOUS
    <2>1. PICK q \in NewRows : q.payload = r.payload
      BY LoadedRows
    <2>2. q = r
      BY <1>3, <2>1 DEF IInv, Whole, Coherent
    <2> QED
      BY <2>2, <1>3, LoadedRows, Numbers
  <1>7. PassHolds'
    <2>1. pass'.fresh \intersect db.checkpoint.counted = {}
      BY <1>3, LoadedRows DEF IInv, Whole, Coherent
    <2>2. db.checkpoint.last < pass'.last /\ pass'.last <= sequence
      BY <1>3, <1>5, LoadedRows, Numbers DEF IInv, IdsAhead
    <2>3. \A r \in db.locations : db.checkpoint.last < r.id => r.payload \in pass'.fresh
      BY <1>4, LoadedRows, Numbers
    <2> QED
      BY <1>1, <1>6, <2>1, <2>2, <2>3 DEF PassHolds
  <1>8. \A r \in job.tables.locations : r.id > pass'.last => r.payload \notin pass'.fresh
    <2> SUFFICES ASSUME NEW r \in job.tables.locations, r.id > pass'.last, r.payload \in pass'.fresh
                 PROVE  FALSE
      OBVIOUS
    <2>1. PICK q \in NewRows : q.payload = r.payload
      BY LoadedRows
    <2>2. q = r
      BY <1>3, <2>1 DEF IInv, RowsReadHold
    <2> QED
      BY <2>2, <1>3, LoadedRows, Numbers
  <1>9. RowsReadHold'
    BY <1>1, <1>8 DEF IInv, RowsReadHold
  <1> QED
    BY <1>2, <1>7, <1>9 DEF IInv

(* Its commit counts all rows up to the new checkpoint.                    *)
LEMMA CommitPassKeeps ==
  ASSUME Typed, IInv, CommitPass
  PROVE  IInv'
  <1>1. PICK trips \in {{}} \union {{s} : s \in db.sites} :
          db' = [db EXCEPT !.checkpoint.last = pass.last,
                           !.checkpoint.counted = @ \union pass.fresh,
                           !.trips = @ \union trips]
    BY DEF CommitPass
  <1>2. /\ db'.locations = db.locations /\ db'.checkpoint.last = pass.last
        /\ db'.checkpoint.counted = db.checkpoint.counted \union pass.fresh
        /\ db'.checkpoint.ahead = db.checkpoint.ahead
    BY <1>1 DEF Typed, TablesType
  <1>3. pass.open /\ ~ pass'.open /\ UNCHANGED << sequence, job, files >>
    BY DEF CommitPass, NoPass
  <1>4. /\ db.checkpoint.last < pass.last /\ pass.last <= sequence
        /\ \A r \in db.locations : r.id > pass.last => r.payload \notin pass.fresh
        /\ \A r \in db.locations :
             db.checkpoint.last < r.id /\ r.id <= pass.last => r.payload \in pass.fresh
    BY <1>3 DEF IInv, PassHolds
  <1>5. Coherent(db')
    <2>1. \A r \in db.locations : r.id > pass.last =>
            r.payload \notin db.checkpoint.counted \union pass.fresh
      BY <1>4, Numbers DEF IInv, Whole, Coherent
    <2>2. ~ db.checkpoint.ahead => \A r \in db.locations : r.id <= pass.last =>
            r.payload \in db.checkpoint.counted \union pass.fresh
      BY <1>4, Numbers DEF IInv, Whole, Coherent
    <2> QED
      BY <1>2, <2>1, <2>2 DEF IInv, Whole, Coherent
  <1>6. Whole'
    BY <1>3, <1>5 DEF IInv, Whole, Coherent
  <1>7. IdsAhead'
    BY <1>2, <1>3, <1>4 DEF IInv, IdsAhead
  <1>8. RowsReadHold'
    <2>1. \A r \in job.tables.locations : r.id > pass.last =>
            r.payload \notin db.checkpoint.counted \union pass.fresh
      BY <1>3, <1>4, Numbers DEF IInv, RowsReadHold
    <2> QED
      BY <1>2, <1>3, <2>1 DEF IInv, RowsReadHold
  <1> QED
    BY <1>3, <1>6, <1>7, <1>8 DEF IInv, PassHolds

(* Only rows up to the checkpoint are purged.                              *)
LEMMA PurgeKeeps ==
  ASSUME Typed, IInv, Purge
  PROVE  IInv'
  <1>1. PICK gone \in SUBSET Processed : db' = [db EXCEPT !.locations = @ \ gone]
    BY DEF Purge
  <1>2. /\ db'.locations = db.locations \ gone
        /\ db'.checkpoint = db.checkpoint /\ UNCHANGED << sequence, pass, job, files >>
    BY <1>1 DEF Typed, TablesType, Purge
  <1>3. db'.locations \subseteq db.locations
    BY <1>2
  <1>4. Whole' /\ IdsAhead' /\ PassHolds'
    BY <1>2, <1>3 DEF IInv, Whole, Coherent, IdsAhead, PassHolds
  <1>5. \A q \in db.locations : q \notin db'.locations => q.id <= db.checkpoint.last
    BY <1>1, <1>2 DEF Processed
  <1>6. RowsReadHold'
    <2>1. ASSUME NEW q \in job.tables.locations, ~ db.checkpoint.ahead
          PROVE  q.payload \in db.checkpoint.counted \/ q \in db'.locations
      BY <1>5, <2>1 DEF IInv, RowsReadHold, Whole, Coherent
    <2> QED
      BY <1>2, <1>3, <2>1 DEF IInv, RowsReadHold
  <1> QED
    BY <1>4, <1>6 DEF IInv

(* Waypoints are no rows.                                                  *)
LEMMA SitesKeep ==
  ASSUME Typed, IInv, NEW s \in Sites, SaveSite(s) \/ DeleteSite(s)
  PROVE  IInv'
  <1>1. /\ db'.locations = db.locations /\ db'.checkpoint = db.checkpoint
        /\ job'.kind = job.kind /\ job'.read = job.read /\ job'.tables = job.tables
        /\ UNCHANGED << sequence, pass, files >>
    BY DEF Typed, TablesType, JobType, SaveSite, DeleteSite
  <1> QED
    BY <1>1 DEF IInv, Whole, Coherent, IdsAhead, PassHolds, RowsReadHold

(* A backup that ends, or has not begun, has read nothing.                 *)
LEMMA NothingRead ==
  /\ NoJob.kind = "none" /\ NoJob.read = 0 /\ ~ NoJob.saved /\ NoJob.tables.locations = {}
  /\ \A kind \in Kinds : LET j == [NoJob EXCEPT !.kind = kind]
                         IN  j.kind = kind /\ j.read = 0 /\ j.tables.locations = {}
  BY DEF NoJob, EmptyTables

(* A backup reads rows first, and the checkpoint behind them: what it has  *)
(* read agrees as the tables do.                                           *)
LEMMA ReadTableKeeps ==
  ASSUME Typed, IInv, ReadTable
  PROVE  IInv'
  <1>1. UNCHANGED << db, sequence, pass, files >> /\ job.kind # "none" /\ job'.kind = job.kind
    BY ReadTableCases DEF ReadTable
  <1>2. IdsAhead' /\ PassHolds' /\ Coherent(db')
    BY <1>1 DEF IInv, Whole, Coherent, IdsAhead, PassHolds
  <1>3. CASE job.read = 0
    <2>1. job'.read = 1 /\ job'.tables = [job.tables EXCEPT !.locations = db.locations]
      BY <1>3, ReadTableCases
    <2>2. job'.tables.locations = db.locations
      BY <2>1 DEF Typed, JobType, TablesType
    <2>3. RowsReadHold'
      BY <1>1, <2>2 DEF IInv, Whole, Coherent, PassHolds, RowsReadHold
    <2> QED
      BY <1>1, <1>2, <2>1, <2>3 DEF IInv, Whole
  <1>4. CASE job.read = 1
    <2>1. job'.read = 2 /\ job'.tables = [job.tables EXCEPT !.sites = db.sites]
      BY <1>4, ReadTableCases
    <2>2. job'.tables.locations = job.tables.locations
      BY <2>1 DEF Typed, JobType, TablesType
    <2> QED
      BY <1>1, <1>2, <2>1, <2>2 DEF IInv, Whole, RowsReadHold
  <1>5. CASE job.read = 2
    <2>1. job'.read = 3 /\ job'.tables = [job.tables EXCEPT !.checkpoint = db.checkpoint]
      BY <1>5, ReadTableCases
    <2>2. job'.tables.locations = job.tables.locations /\ job'.tables.checkpoint = db.checkpoint
      BY <2>1 DEF Typed, JobType, TablesType
    <2>3. Coherent(job'.tables)
      BY <2>2 DEF IInv, Whole, Coherent, RowsReadHold
    <2> QED
      BY <1>1, <1>2, <2>2, <2>3 DEF IInv, Whole, RowsReadHold
  <1>6. CASE job.read = 3
    <2>1. job'.read = 4 /\ job'.tables = [job.tables EXCEPT !.trips = db.trips]
      BY <1>6, ReadTableCases
    <2>2. /\ job'.tables.locations = job.tables.locations
          /\ job'.tables.checkpoint = job.tables.checkpoint
      BY <2>1 DEF Typed, JobType, TablesType
    <2>3. Coherent(job'.tables)
      BY <1>6, <2>2 DEF IInv, Whole, Coherent
    <2> QED
      BY <1>1, <1>2, <2>2, <2>3 DEF IInv, Whole, RowsReadHold
  <1> QED
    BY <1>3, <1>4, <1>5, <1>6, ReadTableCases

(* The other steps of a backup, and the end of a pass that fails.          *)
LEMMA BackupKeeps ==
  Typed /\ IInv /\ (BeginDownload \/ BeginAutomatic \/ FinishBackup \/ BackupFails \/ FailPass)
    => IInv'
  <1> SUFFICES ASSUME Typed, IInv,
                      BeginDownload \/ BeginAutomatic \/ FinishBackup \/ BackupFails \/ FailPass
               PROVE  IInv'
    OBVIOUS
  <1>1. ASSUME NEW kind \in Kinds, BeginBackup(kind) PROVE IInv'
    <2>1. UNCHANGED << db, sequence, pass, files >> /\ job'.kind # "none"
      BY <1>1, NothingRead DEF BeginBackup, Kinds
    <2>2. job'.read = 0 /\ job'.tables.locations = {}
      BY <1>1, NothingRead DEF BeginBackup
    <2> QED
      BY <2>1, <2>2 DEF IInv, Whole, Coherent, IdsAhead, PassHolds, RowsReadHold
  <1>2. CASE FinishBackup
    <2>1. /\ UNCHANGED << db, sequence, pass >> /\ job' = NoJob /\ job.read = 4
          /\ files' = [files EXCEPT ![job.kind] =
                         [whole |-> TRUE, saved |-> job.saved, tables |-> job.tables]]
      BY <1>2, TablesInOrder DEF FinishBackup
    <2>2. \A k \in Kinds : files'[k].tables = job.tables \/ files'[k] = files[k]
      BY <2>1 DEF Typed
    <2>3. \A k \in Kinds : files'[k].whole => Coherent(files'[k].tables)
      BY <2>1, <2>2 DEF IInv, Whole
    <2> QED
      BY <2>1, <2>3, NothingRead DEF IInv, Whole, Coherent, IdsAhead, PassHolds, RowsReadHold
  <1>3. CASE BackupFails
    BY <1>3, NothingRead
       DEF BackupFails, IInv, Whole, Coherent, IdsAhead, PassHolds, RowsReadHold
  <1>4. CASE FailPass
    <2>1. ~ pass'.open /\ UNCHANGED << db, sequence, job, files >>
      BY <1>4 DEF FailPass, NoPass
    <2> QED
      BY <2>1 DEF IInv, Whole, Coherent, IdsAhead, PassHolds, RowsReadHold
  <1> QED
    BY <1>1, <1>2, <1>3, <1>4 DEF BeginDownload, BeginAutomatic, Kinds

(* A restore brings back tables that agree, or nothing.                    *)
LEMMA RestoreKeeps ==
  ASSUME Typed, IInv, NEW kind \in Kinds, Restore(kind)
  PROVE  IInv'
  <1> DEFINE t == files[kind].tables
  <1>1. /\ ~ pass.open /\ job.kind = "none" /\ UNCHANGED << pass, job, files >>
        /\ t \in TablesType(sent) /\ Coherent(t) /\ sent \in Nat
    BY BoundsAssumption DEF Restore, TablesFree, Valid, IInv, Whole, Typed, FileType
  <1>2. job.tables.locations = {} /\ (job.read >= 3 => Coherent(job.tables))
    BY <1>1 DEF IInv, Whole, RowsReadHold
  <1>3. CASE RestoreTables(t)
    <2>1. /\ db' = [t EXCEPT !.checkpoint.ahead = @ \/ t.checkpoint.last > LastId(t.locations)]
          /\ sequence' = LastId(t.locations)
      BY <1>3 DEF RestoreTables
    <2>2. LastId(t.locations) \in 0..sent /\ \A r \in t.locations : r.id <= LastId(t.locations)
      BY <1>1, LastIdBounds DEF TablesType
    <2>3. /\ db'.locations = t.locations /\ db'.checkpoint.last = t.checkpoint.last
          /\ db'.checkpoint.counted = t.checkpoint.counted
      BY <1>1, <2>1 DEF TablesType
    <2>4. ~ db'.checkpoint.ahead =>
            ~ t.checkpoint.ahead /\ ~ (t.checkpoint.last > LastId(t.locations))
      BY <1>1, <2>1 DEF TablesType
    <2>5. Coherent(db')
      BY <1>1, <2>3, <2>4 DEF Coherent
    <2>6. t.checkpoint.last \in Nat
      BY <1>1 DEF TablesType
    <2>7. IdsAhead'
      BY <2>1, <2>2, <2>3, <2>4, <2>6 DEF IdsAhead
    <2> QED
      BY <1>1, <1>2, <2>5, <2>7 DEF IInv, Whole, PassHolds, RowsReadHold
  <1>4. CASE RollBack(t)
    <2>1. UNCHANGED << db, sequence >>
      BY <1>4 DEF RollBack
    <2> QED
      BY <1>1, <2>1 DEF IInv, Whole, Coherent, IdsAhead, PassHolds, RowsReadHold
  <1> QED
    BY <1>3, <1>4 DEF Restore

(* Every step keeps rows, checkpoint, pass and backup in agreement.        *)
LEMMA NextKeeps == Typed /\ IInv /\ [Next]_vars => IInv'
  <1> SUFFICES ASSUME Typed, IInv, [Next]_vars PROVE IInv'
    OBVIOUS
  <1>1. CASE StoreRow
    BY <1>1, StoreRowKeeps
  <1>2. CASE LoadPass
    BY <1>2, LoadPassKeeps
  <1>3. CASE CommitPass
    BY <1>3, CommitPassKeeps
  <1>4. CASE Purge
    BY <1>4, PurgeKeeps
  <1>5. CASE \E s \in Sites : SaveSite(s) \/ DeleteSite(s)
    BY <1>5, SitesKeep
  <1>6. CASE ReadTable
    BY <1>6, ReadTableKeeps
  <1>7. CASE BeginDownload \/ BeginAutomatic \/ FinishBackup \/ BackupFails \/ FailPass
    BY <1>7, BackupKeeps
  <1>8. CASE RestoreUploaded \/ RestoreRetained
    BY <1>8, RestoreKeeps DEF RestoreUploaded, RestoreRetained, Kinds
  <1>9. CASE UNCHANGED vars
    BY <1>9 DEF vars, IInv, Whole, Coherent, IdsAhead, PassHolds, RowsReadHold
  <1> QED
    BY <1>1, <1>2, <1>3, <1>4, <1>5, <1>6, <1>7, <1>8, <1>9 DEF Next

(* They agree throughout.                                                  *)
LEMMA AlwaysHolds == Spec => [](Typed /\ IInv)
  BY InitTyped, InitHolds, NextTyped, NextKeeps, PTL DEF Spec

(* Whatever is restored over whatever was done since, every later payload  *)
(* gets a free id, and no row stored is left out of the odometer, but for  *)
(* a restore whose checkpoint is above its rows.                           *)
THEOREM RestoredRowsReachOdometer == Spec => []RowsReachOdometer
  <1>1. Typed /\ IInv => RowsReachOdometer
    BY DEF IInv, Whole, Coherent, IdsAhead, RowsReachOdometer
  <1> QED
    BY <1>1, AlwaysHolds, PTL

(* No pass takes a payload as new that the odometer holds, however often   *)
(* rows or checkpoints of another time were restored.                      *)
THEOREM RestoredRowsCountedOnce == Spec => []CountedOnce
  <1>1. Typed /\ IInv => CountedOnce
    BY DEF IInv, PassHolds, CountedOnce
  <1> QED
    BY <1>1, AlwaysHolds, PTL

-----------------------------------------------------------------------------
(* Trips and their waypoints.                                              *)

(* A pass refers only to waypoints that are there.                         *)
LEMMA PassKeepsSites ==
  Typed /\ SitesRead /\ (StoreRow \/ LoadPass \/ CommitPass \/ FailPass \/ Purge) => SitesRead'
  <1> SUFFICES ASSUME Typed, SitesRead, StoreRow \/ LoadPass \/ CommitPass \/ FailPass \/ Purge
               PROVE  SitesRead'
    OBVIOUS
  <1>1. UNCHANGED << job, files >>
    BY DEF StoreRow, LoadPass, CommitPass, FailPass, Purge
  <1>2. db'.sites = db.sites /\ db'.trips \subseteq db.sites
    <2>1. CASE StoreRow
      BY <2>1 DEF StoreRow, Typed, TablesType, SitesRead
    <2>2. CASE LoadPass \/ FailPass
      BY <2>2 DEF LoadPass, FailPass, SitesRead
    <2>3. CASE CommitPass
      <3>1. PICK trips \in {{}} \union {{s} : s \in db.sites} :
              db' = [db EXCEPT !.checkpoint.last = pass.last,
                               !.checkpoint.counted = @ \union pass.fresh,
                               !.trips = @ \union trips]
        BY <2>3 DEF CommitPass
      <3>2. db'.sites = db.sites /\ db'.trips = db.trips \union trips
        BY <3>1 DEF Typed, TablesType
      <3> QED
        BY <3>1, <3>2 DEF SitesRead
    <2>4. CASE Purge
      BY <2>4 DEF Purge, Typed, TablesType, SitesRead
    <2> QED
      BY <2>1, <2>2, <2>3, <2>4
  <1> QED
    BY <1>1, <1>2 DEF SitesRead, FilesRestorable, ReferencesHold

(* A waypoint saved during a backup marks it; one deleted takes its trips  *)
(* along.                                                                  *)
LEMMA SaveSiteKeepsSites ==
  ASSUME Typed, SitesRead, NEW s \in Sites, SaveSite(s) \/ DeleteSite(s)
  PROVE  SitesRead'
  <1>1. CASE SaveSite(s)
    <2>1. /\ db'.sites = db.sites \union {s} /\ db'.trips = db.trips /\ files' = files
          /\ job'.kind = job.kind /\ job'.read = job.read /\ job'.tables = job.tables
          /\ ~ job'.saved => job.kind = "none"
      BY <1>1 DEF SaveSite, Typed, TablesType, JobType
    <2> QED
      BY <2>1 DEF SitesRead, FilesRestorable
  <1>2. CASE DeleteSite(s)
    <2>1. /\ db'.sites = db.sites \ {s} /\ db'.trips = db.trips \ {s}
          /\ UNCHANGED << job, files >>
      BY <1>2 DEF DeleteSite, Typed, TablesType
    <2> QED
      BY <2>1 DEF SitesRead, FilesRestorable
  <1> QED
    BY <1>1, <1>2

(* Trips are read last, behind the waypoints.                              *)
LEMMA ReadTableKeepsSites ==
  ASSUME Typed, SitesRead, ReadTable
  PROVE  SitesRead'
  <1>1. /\ UNCHANGED << db, files >> /\ job.kind # "none" /\ job'.kind = job.kind
        /\ job'.saved = job.saved /\ job'.read = job.read + 1
    BY ReadTableCases DEF ReadTable
  <1>2. CASE job.read = 0 \/ job.read = 2
    <2>1. job'.tables.sites = job.tables.sites
      BY <1>2, ReadTableCases DEF Typed, JobType, TablesType
    <2> QED
      BY <1>1, <1>2, <2>1 DEF SitesRead, FilesRestorable
  <1>3. CASE job.read = 1
    <2>1. job'.tables.sites = db.sites
      BY <1>3, ReadTableCases DEF Typed, JobType, TablesType
    <2> QED
      BY <1>1, <1>3, <2>1 DEF SitesRead, FilesRestorable
  <1>4. CASE job.read = 3
    <2>1. job'.tables.sites = job.tables.sites /\ job'.tables.trips = db.trips
      BY <1>4, ReadTableCases DEF Typed, JobType, TablesType
    <2> QED
      BY <1>1, <1>4, <2>1 DEF SitesRead, FilesRestorable, ReferencesHold
  <1> QED
    BY <1>2, <1>3, <1>4, ReadTableCases

(* The other steps of a backup.                                            *)
LEMMA BackupKeepsSites ==
  Typed /\ SitesRead /\ (BeginDownload \/ BeginAutomatic \/ FinishBackup \/ BackupFails)
    => SitesRead'
  <1> SUFFICES ASSUME Typed, SitesRead,
                      BeginDownload \/ BeginAutomatic \/ FinishBackup \/ BackupFails
               PROVE  SitesRead'
    OBVIOUS
  <1>1. ASSUME NEW kind \in Kinds, BeginBackup(kind) PROVE SitesRead'
    BY <1>1, NothingRead DEF BeginBackup, SitesRead, FilesRestorable
  <1>2. CASE FinishBackup
    <2>1. /\ db' = db /\ job' = NoJob /\ job.read = 4
          /\ files' = [files EXCEPT ![job.kind] =
                         [whole |-> TRUE, saved |-> job.saved, tables |-> job.tables]]
      BY <1>2, TablesInOrder DEF FinishBackup
    <2>2. \A k \in Kinds : \/ files'[k].tables = job.tables /\ files'[k].saved = job.saved
                           \/ files'[k] = files[k]
      BY <2>1 DEF Typed
    <2>3. FilesRestorable'
      BY <2>1, <2>2 DEF SitesRead, FilesRestorable, ReferencesHold
    <2> QED
      BY <2>1, <2>3, NothingRead DEF SitesRead
  <1>3. CASE BackupFails
    BY <1>3, NothingRead DEF BackupFails, SitesRead, FilesRestorable
  <1> QED
    BY <1>1, <1>2, <1>3 DEF BeginDownload, BeginAutomatic, Kinds

(* Only tables whose references hold are restored.                         *)
LEMMA RestoreKeepsSites ==
  ASSUME Typed, SitesRead, NEW kind \in Kinds, Restore(kind)
  PROVE  SitesRead'
  <1> DEFINE t == files[kind].tables
  <1>1. job.kind = "none" /\ job.read = 0 /\ UNCHANGED << job, files >> /\ t \in TablesType(sent)
    BY DEF Restore, SitesRead, Typed, FileType
  <1>2. db'.trips \subseteq db'.sites
    <2>1. CASE RestoreTables(t)
      BY <1>1, <2>1 DEF RestoreTables, ReferencesHold, TablesType
    <2>2. CASE RollBack(t)
      BY <2>2 DEF RollBack, SitesRead
    <2> QED
      BY <2>1, <2>2 DEF Restore
  <1> QED
    BY <1>1, <1>2 DEF SitesRead, FilesRestorable

(* Though its tables are read at different moments, a file can be restored *)
(* unless a waypoint was saved while it was read.                          *)
THEOREM FilesCanBeRestored == Spec => []FilesRestorable
  <1>1. Typed /\ SitesRead /\ [Next]_vars => SitesRead'
    <2> SUFFICES ASSUME Typed, SitesRead, [Next]_vars PROVE SitesRead'
      OBVIOUS
    <2>1. CASE StoreRow \/ LoadPass \/ CommitPass \/ FailPass \/ Purge
      BY <2>1, PassKeepsSites
    <2>2. CASE \E s \in Sites : SaveSite(s) \/ DeleteSite(s)
      BY <2>2, SaveSiteKeepsSites
    <2>3. CASE ReadTable
      BY <2>3, ReadTableKeepsSites
    <2>4. CASE BeginDownload \/ BeginAutomatic \/ FinishBackup \/ BackupFails
      BY <2>4, BackupKeepsSites
    <2>5. CASE RestoreUploaded \/ RestoreRetained
      BY <2>5, RestoreKeepsSites DEF RestoreUploaded, RestoreRetained, Kinds
    <2>6. CASE UNCHANGED vars
      BY <2>6 DEF vars, SitesRead, FilesRestorable
    <2> QED
      BY <2>1, <2>2, <2>3, <2>4, <2>5, <2>6 DEF Next
  <1>2. SitesRead => FilesRestorable
    BY DEF SitesRead
  <1> QED
    BY <1>1, <1>2, AlwaysTyped, InitHolds, PTL DEF Spec
=============================================================================
