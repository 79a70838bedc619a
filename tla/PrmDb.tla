-------------------------------- MODULE PrmDb --------------------------------
(* The parameter database, Svc/PrmDb: a table that components read and     *)
(* write through ports, a command that saves it over the parameter file,   *)
(* and the load of that file when the process starts.  The process may end *)
(* at any time and start again.                                            *)
(*                                                                         *)
(* The file is a sequence of cells, each one a field that is read and      *)
(* written by itself or one piece of a value: <<"delim", 0>>, <<"size", n>>*)
(* for a record whose value has n pieces, <<"id", i>> and <<"val", v>>.    *)
(* The cell where a field is looked for may hold another field: as a size  *)
(* it is out of range (a delimiter is 0xA5), as an id it is nobody's.  A   *)
(* piece of a value may read as a field as well.                           *)
EXTENDS Integers, Sequences, FiniteSets, SequencesExt

CONSTANTS
    Params,     \* the ids of the parameters
    Values,     \* their values, each a sequence of pieces
    NumEntries, \* PRMDB_NUM_DB_ENTRIES
    MaxSets,    \* bound: calls of setPrm
    MaxSaves,   \* bound: PRM_SAVE_FILE commands
    MaxStarts   \* bound: starts of the process

FileCells == ({"delim", "size"} \X Nat) \cup ({"id"} \X (Params \cup {0})) \cup ({"val"} \X Nat)

ASSUME PrmAssumption ==
    Params \subseteq Nat \ {0} /\ Values \subseteq Seq(FileCells) /\ NumEntries \in Nat \ {0}

VARIABLES
    phase,     \* "down", "up", or "saving", with the lock held
    m_db,      \* the table
    file,      \* the parameter file; it outlives the process
    position, unwritten, \* of the open file: where it is written next, and the writes still to come
    recordNum, \* complete records of the last load
    loaded,    \* nothing has happened since the load
    complete,  \* no read error made a difference to the load
    saved,     \* the table of the last save, while no other save has begun, or <<>>
    given,     \* the values that each parameter was ever given or loaded with
    strange,   \* parameters the last load gave a value that was never given to them
    torn,      \* where saves that were cut short ended, as far as no later one wrote over it
    plain,     \* no save wrote a value with a piece that reads as a field
    sets, saves, starts    \* counted to bound them

counts == <<sets, saves, starts>>
ofLoad == <<loaded, recordNum, complete, strange>>
ofFile == <<file, torn, plain>>
prmVars == <<phase, m_db, ofFile, position, unwritten, ofLoad, saved, given, counts>>

Free  == [used |-> FALSE, id |-> 0, val |-> <<>>]
Clear == [e \in 1 .. NumEntries |-> Free]

PrmInit ==
    /\ phase = "down" /\ m_db = Clear /\ file = <<>>
    /\ position = 0 /\ unwritten = <<>>
    /\ recordNum = 0 /\ loaded = FALSE /\ complete = TRUE
    /\ saved = <<>> /\ given = [p \in Params |-> {}] /\ strange = {} /\ torn = {} /\ plain = TRUE
    /\ sets = 0 /\ saves = 0 /\ starts = 0

-----------------------------------------------------------------------------
(* Something happens: what a property says of a load is over.              *)
Forget == loaded' = FALSE /\ recordNum' = 0 /\ complete' = TRUE /\ strange' = {}

(* getPrm: the first entry in use that has the id.                         *)
Holding(db, p) == {e \in 1 .. NumEntries : db[e].used /\ db[e].id = p}
FirstEntry(S) == CHOOSE e \in S : \A other \in S : e <= other
Valid(db, p) == Holding(db, p) # {}
GetPrm(db, p) == db[FirstEntry(Holding(db, p))].val

(* The entry that setPrm writes, of those in the set, if there is one.     *)
Slots(p) == IF Valid(m_db, p) THEN Holding(m_db, p) ELSE {e \in 1 .. NumEntries : ~m_db[e].used}

SetPrm(p, v) ==
    /\ phase = "up" /\ sets < MaxSets
    /\ IF Slots(p) = {} THEN UNCHANGED <<m_db, given>>      \* PrmDbFull
       ELSE /\ m_db' = [m_db EXCEPT ![FirstEntry(Slots(p))] = [used |-> TRUE, id |-> p, val |-> v]]
            /\ given' = [given EXCEPT ![p] = @ \cup {v}]
    /\ sets' = sets + 1 /\ Forget
    /\ UNCHANGED <<phase, ofFile, position, unwritten, saved, saves, starts>>

-----------------------------------------------------------------------------
(* The writes of one record, in their order.                               *)
Record(entry) == << << <<"delim", 0>> >>, << <<"size", Len(entry.val)>> >>,
                    << <<"id", entry.id>> >>, entry.val >>

(* The writes of a whole save.                                             *)
Image(db) == FlattenSeq([e \in 1 .. NumEntries |-> IF db[e].used THEN Record(db[e]) ELSE <<>>])

IsPlain(db) == \A e \in 1 .. NumEntries : db[e].used => \A i \in DOMAIN db[e].val : db[e].val[i][1] = "val"

(* A mutant: the file is opened to append.                                 *)
MutantSaveFile ==
    /\ phase = "up" /\ saves < MaxSaves
    /\ phase' = "saving" /\ position' = Len(file)
    /\ unwritten' = Image(m_db)
    /\ plain' = (plain /\ IsPlain(m_db))
    /\ saves' = saves + 1 /\ saved' = <<>> /\ Forget
    /\ UNCHANGED <<m_db, file, torn, given, sets, starts>>

(* PRM_SAVE_FILE: the file is opened and not truncated.                    *)
SaveFile ==
    /\ phase = "up" /\ saves < MaxSaves
    /\ phase' = "saving" /\ position' = 0
    /\ unwritten' = Image(m_db)
    /\ plain' = (plain /\ IsPlain(m_db))
    /\ saves' = saves + 1 /\ saved' = <<>> /\ Forget
    /\ UNCHANGED <<m_db, file, torn, given, sets, starts>>

Overwritten(cells) ==
    [i \in 1 .. (IF position + Len(cells) > Len(file) THEN position + Len(cells) ELSE Len(file)) |->
        IF i > position /\ i <= position + Len(cells) THEN cells[i - position] ELSE file[i]]

(* An empty value cannot be written: Os::File::write refuses the size 0.   *)
Write ==
    /\ phase = "saving" /\ unwritten # <<>> /\ Head(unwritten) # <<>>
    /\ file' = Overwritten(Head(unwritten))
    /\ position' = position + Len(Head(unwritten)) /\ unwritten' = Tail(unwritten)
    /\ UNCHANGED <<phase, m_db, torn, plain, ofLoad, saved, given, counts>>

(* What a save that ends at this place leaves torn, there and behind it.   *)
TornBehind(at) == {b \in torn : b > at}
CutAt(at) == TornBehind(at) \cup {at}

(* A write that fails, or writes a part only, ends the save.               *)
WriteFails ==
    /\ phase = "saving" /\ unwritten # <<>>
    /\ \E n \in 0 .. Len(Head(unwritten)) :
        /\ n < Len(Head(unwritten)) \/ n = 0
        /\ file' = Overwritten(SubSeq(Head(unwritten), 1, n))
        /\ torn' = CutAt(position + n)
    /\ phase' = "up" /\ unwritten' = <<>> /\ position' = 0
    /\ UNCHANGED <<m_db, plain, ofLoad, saved, given, counts>>

SaveComplete ==
    /\ phase = "saving" /\ unwritten = <<>>
    /\ phase' = "up" /\ saved' = m_db /\ position' = 0
    /\ torn' = TornBehind(position)
    /\ UNCHANGED <<m_db, file, plain, unwritten, ofLoad, given, counts>>

(* The process ends, for whatever reason; what was written stays.          *)
Crash ==
    /\ phase # "down"
    /\ phase' = "down" /\ m_db' = Clear /\ unwritten' = <<>> /\ position' = 0 /\ Forget
    /\ torn' = IF phase = "saving" THEN CutAt(position) ELSE torn
    /\ UNCHANGED <<file, plain, saved, given, counts>>

-----------------------------------------------------------------------------
(* readParamFile.  One turn of its loop reads a record into entry e; a     *)
(* field that is missing, wrong, or cannot be read ends the load, and the  *)
(* entry is in use before its value is read.                               *)
At(i, kind) == i <= Len(file) /\ file[i][1] = kind
LoadOf(db, next, records, going) == [db |-> db, next |-> next, records |-> records, going |-> going]
ReadRecord(load, e, fails) ==
    LET p == load.next
        n == file[p + 1][2]
        id == IF At(p + 2, "id") THEN file[p + 2][2] ELSE 0
        Entry(val) == [used |-> TRUE, id |-> id, val |-> val]
        With(val) == [load.db EXCEPT ![e] = Entry(val)]
        Stopped(db) == LoadOf(db, p, load.records, FALSE)
    IN  IF ~load.going \/ fails = "header" \/ ~At(p, "delim") \/ ~At(p + 1, "size") \/ p + 2 > Len(file)
        THEN Stopped(load.db)
        ELSE IF fails = "value" \/ p + 2 + n > Len(file) \/ n = 0
        THEN Stopped(With(load.db[e].val))
        ELSE LoadOf(With([i \in 1 .. n |-> file[p + 2 + i]]), p + 3 + n, load.records + 1, TRUE)

Load(failing, fails) ==
    LET read[e \in 0 .. NumEntries] ==
            IF e = 0 THEN LoadOf(Clear, 1, 0, TRUE)
            ELSE ReadRecord(read[e - 1], e, IF e = failing THEN fails ELSE "none")
    IN  read[NumEntries]

Start(failing, fails) ==
    /\ phase = "down" /\ starts < MaxStarts
    /\ LET load == Load(failing, fails)
       IN  /\ m_db' = load.db /\ recordNum' = load.records
           /\ strange' = {p \in Params : Valid(load.db, p) /\ GetPrm(load.db, p) \notin given[p]}
           /\ given' = [p \in Params |-> given[p] \cup {load.db[e].val : e \in Holding(load.db, p)}]
           /\ complete' = (load = Load(0, "none"))
    /\ phase' = "up" /\ loaded' = TRUE /\ starts' = starts + 1
    /\ UNCHANGED <<ofFile, position, unwritten, saved, sets, saves>>

StartUp == \/ Start(0, "none")
           \/ \E e \in 1 .. NumEntries, fails \in {"header", "value"} : Start(e, fails)

PrmNext ==
    \/ \E p \in Params, v \in Values : SetPrm(p, v)
    \/ SaveFile \/ Write \/ WriteFails \/ SaveComplete \/ Crash \/ StartUp

PrmSpec == PrmInit /\ [][PrmNext]_prmVars

-----------------------------------------------------------------------------
PrmTypeOK ==
    /\ phase \in {"down", "up", "saving"}
    /\ m_db \in [1 .. NumEntries -> [used : BOOLEAN, id : Params \cup {0}, val : Seq(FileCells)]]
    /\ file \in Seq(FileCells) /\ position \in 0 .. Len(file)
    /\ unwritten \in Seq(Seq(FileCells))
    /\ recordNum \in 0 .. NumEntries /\ strange \subseteq Params /\ torn \subseteq 0 .. Len(file)
    /\ loaded \in BOOLEAN /\ complete \in BOOLEAN /\ plain \in BOOLEAN

(* What a save that ended well wrote is what the next start reads, even if *)
(* the file was longer before: it is overwritten from its beginning and    *)
(* never cut off (PrmDbImpl.cpp:132).                                      *)
SavedIsLoaded ==
    loaded /\ complete /\ saved # <<>> =>
        \A p \in Params : Valid(saved, p) => Valid(m_db, p) /\ GetPrm(m_db, p) = GetPrm(saved, p)

(* A start gives at most as many parameters a value that they were never   *)
(* given as there are places in the file where a save was cut short, and   *)
(* one more if it meets a read error.  Not when values were saved that     *)
(* hold what reads as a field: what is behind a torn record may be a       *)
(* record by accident.                                                     *)
DamageIsBounded ==
    plain => Cardinality(strange) <= Cardinality(torn) + (IF complete THEN 0 ELSE 1)

(* Of the entries that were not loaded only the one after the last record  *)
(* is in use.                                                              *)
OneEntryTooMany ==
    loaded => \A e \in 1 .. NumEntries : m_db[e].used => e <= recordNum + 1

(* Together: what a start may find in the table.                           *)
LoadIsSound == PrmTypeOK /\ SavedIsLoaded /\ DamageIsBounded /\ OneEntryTooMany

(* "If an error occurs during the file load, any entries not successfully  *)
(* loaded will return a status to the getPrm port of PARAM_INVALID"        *)
(* (Svc/PrmDb/docs/sdd.md:40).                                             *)
NotLoadedIsInvalid ==
    loaded => \A e \in 1 .. NumEntries : m_db[e].used => e <= recordNum
=============================================================================
