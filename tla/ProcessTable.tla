---------------------------- MODULE ProcessTable ----------------------------
(***************************************************************************)
(* The descriptive fields of the process records: CapProcess::Parse file   *)
(* by file, and the part of CaptureInit and CaptureUpdate that creates,    *)
(* parses and erases records, while the processes they describe start,     *)
(* change, exit and pass their pids on.  What a process is credited with   *)
(* and the lookup of owners are CaptureCxx's.                              *)
(***************************************************************************)
EXTENDS PidMerge, ProcImage

CONSTANTS
    Total,      \* MemTotal of /proc/meminfo
    Word,       \* uint64_t counts modulo Word
    Words,      \* the words that names begin with
    FirstWord,  \* FirstWord[p]: the program name p up to its first blank
    Private,    \* users whose /proc/<pid>/io and fd may not be read
    Users,      \* the uids getpwuid knows
    Groups,     \* the gids getgrgid knows
    Faults,     \* what may fail: "getifaddrs", "meminfo", "opendir", "open_stat", and
                \* "open_proc", the open of a file of a process that is there
    MaxInits, MaxUpdates,   \* bounds: calls of CaptureInit (that find devices), CaptureUpdate
    MaxMisses               \* bound: files of processes that fail to open

ASSUME TableAssumption ==
    /\ Total \in Nat /\ Word \in Nat /\ 100 * MaxTicks < Word
    /\ FirstWord \in [Programs -> Words] /\ "" \notin Words
    /\ Faults \subseteq {"getifaddrs", "meminfo", "opendir", "open_stat", "open_proc"}
    /\ MaxInits \in Nat /\ MaxUpdates \in Nat /\ MaxMisses \in Nat

\* The names that the scan of a stat line stumbles over.
Spaced == {p \in Programs : FirstWord[p] # p}

VARIABLES
    pc, op,         \* the part of the call that is next, and the call
    inits, updates, \* calls of CaptureInit and of CaptureUpdate so far
    memory, cpu, deltaCpu,      \* the members of CaptureCxx
    record,         \* the fields of the processes in the table
    cur, file,      \* the record being parsed and its next file, or -1 and "none"
    seen,           \* history: the versions of the processes the call has listed
    mark,           \* history: per record, what its parses met
    misses          \* files that failed to open although the process was there

tableVars == <<memory, cpu, deltaCpu, record, cur, file, mark, misses>>
callVars == <<pc, op, inits, updates>>
vars == <<imageVars, mergeVars, callVars, tableVars, seen>>

\* Seeded fault: the subtraction is signed.
MinusSigned(a, b) == a - b

\* Unsigned subtraction.
Minus(a, b) == IF a >= b THEN a - b ELSE Word + a - b

\* A percentage is kept as the two numbers it is the quotient of.
Percent(part, whole) ==
    IF whole = 0 THEN [num |-> 0, den |-> 1] ELSE [num |-> (100 * part) % Word, den |-> whole]

\* A name from the user or group database, or the number itself.
Named(db, id) == [named |-> id \in db, id |-> id]

NewRecord ==
    [name |-> "", cmdline |-> "", user |-> Named({}, 0), group |-> Named({}, 0),
     uid |-> 0, gid |-> 0, fds |-> 0, io |-> 0, memory |-> 0, memPercent |-> Percent(0, 0),
     cpu |-> 0, deltaCpu |-> 0, cpuPercent |-> Percent(0, 0)]

\* The life and the version of the process with pid p, if there is one.
LifeOf(p) == IF p \in running THEN image[p].life ELSE 0
VersionOf(p) == IF p \in running THEN image[p].version ELSE 0

\* history: born is the version of the process when the record was created, life
\* its life when it was last parsed, total the memory then, and missed the files
\* that did not open in that parse although the process was there; prior and reader
\* are the lives whose cpu time was read last, or 0, from and at the times of these
\* reads.
NewMark(p) == [born |-> VersionOf(p), life |-> LifeOf(p), total |-> memory, missed |-> {},
               reader |-> 0, prior |-> 0, from |-> 0, at |-> 0]

\* The last two reads were of one life, or the record was new before the last.
OneLife(m) == m.prior \in {0, m.reader}

MarkTurn(m, life) == [m EXCEPT !.life = life, !.total = memory, !.missed = {}]

MarkMiss(m, name) == [m EXCEPT !.missed = m.missed \cup {name}]

MarkRead(m, life, now) ==
    [m EXCEPT !.prior = m.reader, !.reader = life, !.from = m.at, !.at = now]
-----------------------------------------------------------------------------
(* CapProcess::Parse.  One step per file, which opens only if the process   *)
(* is there.  What becomes of a reader whose process exits between open and *)
(* read is ProcReader's subject.                                            *)

Parsing(name) == file = name /\ UNCHANGED <<imageVars, mergeVars, callVars,
                                            memory, cpu, deltaCpu, seen>>

Shown == image[cur].look

\* The fields are stored, and the next file follows, or the parse is over.
Fill(fields, next) ==
    /\ record' = [record EXCEPT ![cur] = fields]
    /\ file' = next /\ cur' = IF next = "none" THEN -1 ELSE cur

\* A file that could be opened may fail to for want of descriptors, for instance.
Opens(opened, could) ==
    IF opened THEN could ELSE ~could \/ ("open_proc" \in Faults /\ misses < MaxMisses)

MarkMissed(missed) ==
    IF missed
    THEN /\ mark' = [mark EXCEPT ![cur] = MarkMiss(mark[cur], file)]
         /\ misses' = misses + 1
    ELSE UNCHANGED <<mark, misses>>

\* ParseStatus, ParseCmdline and ParseStat end the parse when they cannot open.
ParseReturns ==
    /\ Parsing(file) /\ file \in {"status", "cmdline", "stat"}
    /\ Opens(FALSE, cur \in running)
    /\ Fill(record[cur], "none")
    /\ MarkMissed(cur \in running)

\* The name is taken only once, up to its first blank, where %s stops; there is no
\* VmRSS line without memory.
ReadStatus(r, look) ==
    [r EXCEPT !.name = IF r.name = "" THEN FirstWord[look.prog] ELSE r.name,
              !.memory = IF look.rss = 0 THEN r.memory ELSE look.rss,
              !.uid = look.uid, !.gid = look.gid]

ParseStatus ==
    /\ Parsing("status") /\ cur \in running
    /\ Fill(ReadStatus(record[cur], Shown), "cmdline")
    /\ UNCHANGED <<mark, misses>>

\* The extraction of a string stops at a blank, too.  Nothing is read from an empty
\* file, and the field keeps what it had.
ReadCmdline(r, look) ==
    [r EXCEPT !.cmdline = IF look.rss = 0 THEN r.cmdline ELSE FirstWord[look.prog]]

ParseCmdline ==
    /\ Parsing("cmdline") /\ cur \in running
    /\ Fill(ReadCmdline(record[cur], Shown), "io")
    /\ UNCHANGED <<mark, misses>>

Readable == cur \in running /\ Shown.uid \notin Private

ReadIo(r, version) == [r EXCEPT !.io = version]

\* Seeded fault: a file that may not be read ends the parse.
ParseIoReturns(opened) ==
    /\ Parsing("io") /\ Opens(opened, Readable)
    /\ IF opened THEN Fill(ReadIo(record[cur], VersionOf(cur)), "fd")
                 ELSE Fill(record[cur], "none")
    /\ MarkMissed(Readable /\ ~opened)

\* ParseIo; its failure is ignored.
ParseIo(opened) ==
    /\ Parsing("io") /\ Opens(opened, Readable)
    /\ Fill(IF opened THEN ReadIo(record[cur], VersionOf(cur)) ELSE record[cur], "fd")
    /\ MarkMissed(Readable /\ ~opened)

\* A gid without a name goes into user, and group stays.
ParseUserAndGroup(r) ==
    IF r.gid \in Groups
    THEN [r EXCEPT !.user = Named(Users, r.uid), !.group = Named(Groups, r.gid)]
    ELSE [r EXCEPT !.user = Named(Groups, r.gid)]

ReadFds(r, version) == [r EXCEPT !.fds = version]

MemShare(r) == [r EXCEPT !.memPercent = Percent(r.memory, memory)]

\* ParseUserAndGroup, ParseHandle, whose failure is ignored too, and the share of
\* the memory.
ParseHandle(opened) ==
    /\ Parsing("fd") /\ Opens(opened, Readable)
    /\ LET r == ParseUserAndGroup(record[cur])
       IN  Fill(MemShare(IF opened THEN ReadFds(r, VersionOf(cur)) ELSE r), "stat")
    /\ MarkMissed(Readable /\ ~opened)

\* Seeded fault: the total of the last read is not kept.
ScanStatForgets(r, prog, now) ==
    IF prog \in Spaced THEN r ELSE [r EXCEPT !.deltaCpu = Minus(now, r.cpu)]

\* The fields of a stat line follow the name, and a blank in it makes the whole
\* scan fail: cpu and deltaCpu stay.
ScanStat(r, prog, now) ==
    IF prog \in Spaced THEN r ELSE [r EXCEPT !.deltaCpu = Minus(now, r.cpu), !.cpu = now]

\* Seeded fault: the share of all the time the process has used.
CpuShareTotal(r) == [r EXCEPT !.cpuPercent = Percent(r.cpu, deltaCpu)]

CpuShare(r) == [r EXCEPT !.cpuPercent = Percent(r.deltaCpu, deltaCpu)]

\* ParseStat and the share of the processors.
ParseStat ==
    /\ Parsing("stat") /\ cur \in running
    /\ Fill(CpuShare(ScanStat(record[cur], Shown.prog, image[cur].cpu)), "none")
    /\ mark' = IF Shown.prog \in Spaced THEN mark
               ELSE [mark EXCEPT ![cur] = MarkRead(mark[cur], LifeOf(cur), ticks)]
    /\ UNCHANGED misses

Parse ==
    \/ ParseReturns \/ ParseStatus \/ ParseCmdline \/ ParseStat
    \/ \E opened \in BOOLEAN : ParseIo(opened) \/ ParseHandle(opened)
-----------------------------------------------------------------------------
(* CaptureInit and CaptureUpdate.                                          *)

\* The call is at label and no record is being parsed.
At(label) == pc = label /\ file = "none" /\ UNCHANGED imageVars

\* A new record for pid p replaces the one there may be, and is parsed.
Create(p) ==
    /\ processes' = [q \in tracked \cup {p} |-> IF q = p THEN NewProcess ELSE processes[q]]
    /\ record' = [q \in tracked \cup {p} |-> IF q = p THEN NewRecord ELSE record[q]]
    /\ mark' = [q \in tracked \cup {p} |-> IF q = p THEN NewMark(p) ELSE mark[q]]
    /\ cur' = p /\ file' = "status"
    /\ UNCHANGED <<memory, cpu, deltaCpu, misses>>

Return ==
    /\ pc' = "idle" /\ op' = "none"
    /\ pidIt' = {} /\ procIt' = {} /\ before' = {} /\ seen' = [p \in {} |-> 0]

\* A call that finds devices.  GetMemTotal: without /proc/meminfo the total stays.
InitCall(opened) ==
    /\ At("idle") /\ inits < MaxInits
    /\ opened \/ "meminfo" \in Faults
    /\ inits' = inits + 1
    /\ memory' = IF opened THEN Total ELSE memory
    /\ pc' = "list" /\ op' = "init"
    /\ UNCHANGED <<mergeVars, updates, cpu, deltaCpu, record, cur, file, mark, misses, seen>>

\* Without devices, which no call before has found either, Init returns here.
InitFails(opened) ==
    /\ At("idle") /\ inits = 0 /\ "getifaddrs" \in Faults
    /\ opened \/ "meminfo" \in Faults
    /\ memory' = IF opened THEN Total ELSE memory
    /\ UNCHANGED <<mergeVars, callVars, cpu, deltaCpu, record, cur, file, mark, misses, seen>>

UpdateCall ==
    /\ At("idle") /\ updates < MaxUpdates
    /\ updates' = updates + 1
    /\ pc' = "list" /\ op' = "update"
    /\ UNCHANGED <<mergeVars, inits, tableVars, seen>>

UpdatePids(opened) ==
    /\ At("list")
    /\ opened \/ "opendir" \in Faults
    /\ pids' = IF opened THEN running ELSE {}
    /\ seen' = [p \in pids' |-> VersionOf(p)]
    /\ pc' = IF op = "init" THEN "adopt" ELSE "packets"
    /\ pidIt' = IF op = "init" THEN pids' ELSE {}
    /\ UNCHANGED <<processes, procIt, before, op, inits, updates, tableVars>>

\* The last loop of Init.
AdoptPid(p) ==
    /\ At("adopt") /\ PointsTo(pidIt, p)
    /\ pidIt' = pidIt \ {p}
    /\ Create(p)
    /\ UNCHANGED <<pids, procIt, before, callVars, seen>>

AdoptDone ==
    /\ At("adopt") /\ pidIt = {}
    /\ Return
    /\ UNCHANGED <<pids, processes, inits, updates, tableVars>>

\* ProcessTcp or ProcessUdp for a packet of a process that is not in the table.
\* It is one of the listed ones (OwnersListed of CaptureCxx), and there are no
\* handles before CaptureInit.
AdoptOwner(p) ==
    /\ At("packets") /\ inits > 0 /\ p \in pids \ tracked
    /\ Create(p)
    /\ UNCHANGED <<pids, pidIt, procIt, before, callVars, seen>>

\* GetCpuTotal, after the packets; the loop follows if the sizes differ.
GetCpuTotal(opened) ==
    /\ At("packets")
    /\ opened \/ "open_stat" \in Faults
    /\ IF opened
       THEN /\ deltaCpu' = Minus(ticks, cpu) /\ cpu' = ticks
            /\ pidIt' = pids /\ procIt' = tracked /\ before' = tracked
            /\ pc' = (IF SizesDiffer THEN "merge" ELSE "report") /\ UNCHANGED <<op, seen>>
       ELSE Return /\ UNCHANGED <<cpu, deltaCpu>>
    /\ UNCHANGED <<pids, processes, inits, updates, memory, record, cur, file, mark, misses>>

MergeErase(q) ==
    /\ At("merge") /\ Erase(q)
    /\ record' = [r \in tracked \ {q} |-> record[r]]
    /\ mark' = [r \in tracked \ {q} |-> mark[r]]
    /\ UNCHANGED <<callVars, memory, cpu, deltaCpu, cur, file, misses, seen>>

\* Seeded fault: the record is kept and not parsed again.
MergeKeepOld(q) ==
    /\ At("merge") /\ Keep(q)
    /\ UNCHANGED <<callVars, tableVars, seen>>

MergeKeep(q) ==
    /\ At("merge") /\ Keep(q)
    /\ cur' = q /\ file' = "status"
    /\ mark' = [mark EXCEPT ![q] = MarkTurn(mark[q], LifeOf(q))]
    /\ UNCHANGED <<callVars, memory, cpu, deltaCpu, record, misses, seen>>

MergeDone ==
    /\ At("merge") /\ MergeOver
    /\ pc' = "report"
    /\ UNCHANGED <<mergeVars, op, inits, updates, tableVars, seen>>

\* The records are handed to the client as they are in this state.
Report ==
    /\ At("report")
    /\ Return
    /\ UNCHANGED <<pids, processes, inits, updates, tableVars>>
-----------------------------------------------------------------------------
Init ==
    /\ ImageInit
    /\ pids = {} /\ processes = [p \in {} |-> NewProcess]
    /\ pidIt = {} /\ procIt = {} /\ before = {}
    /\ pc = "idle" /\ op = "none" /\ inits = 0 /\ updates = 0
    /\ memory = 0 /\ cpu = 0 /\ deltaCpu = 0
    /\ record = [p \in {} |-> NewRecord] /\ mark = [p \in {} |-> NewMark(p)]
    /\ cur = -1 /\ file = "none" /\ misses = 0 /\ seen = [p \in {} |-> 0]

CallStep ==
    \/ \E opened \in BOOLEAN : InitCall(opened) \/ InitFails(opened)
    \/ \E opened \in BOOLEAN : UpdatePids(opened) \/ GetCpuTotal(opened)
    \/ UpdateCall \/ AdoptDone \/ MergeDone \/ Report
    \/ \E p \in Pids : AdoptPid(p) \/ AdoptOwner(p) \/ MergeErase(p) \/ MergeKeep(p)

SystemStep == ImageNext /\ UNCHANGED <<mergeVars, callVars, tableVars, seen>>

Next == Parse \/ CallStep \/ SystemStep

Spec == Init /\ [][Next]_vars
-----------------------------------------------------------------------------
Name == [named : BOOLEAN, id : Nat]

Share == [num : Nat, den : Nat]

Record ==
    [name : Words \cup {""}, cmdline : Words \cup {""}, user : Name, group : Name,
     uid : Nat, gid : Nat, fds : Nat, io : Nat, memory : Nat, memPercent : Share,
     cpu : Nat, deltaCpu : Nat, cpuPercent : Share]

Files == {"status", "cmdline", "io", "fd", "stat"}

Mark == [born : Nat, life : Nat, total : Nat, missed : SUBSET Files,
         reader : Nat, prior : Nat, from : Nat, at : Nat]

TableTypeOK ==
    /\ ImageTypeOK /\ MergeTypeOK
    /\ pc \in {"idle", "list", "adopt", "packets", "merge", "report"}
    /\ op \in {"none", "init", "update"} /\ inits \in Nat /\ updates \in Nat
    /\ memory \in Nat /\ cpu \in Nat /\ deltaCpu \in Nat
    /\ record \in [tracked -> Record] /\ mark \in [tracked -> Mark] /\ misses \in Nat
    /\ file \in Files \cup {"none"}
    /\ IF file = "none" THEN cur = -1 ELSE cur \in tracked
    /\ DOMAIN seen \in SUBSET Pids /\ seen \in [DOMAIN seen -> Nat]

\* What a record should say of a process that shows the given image.
Describes(r, shown) ==
    /\ r.uid = shown.look.uid /\ r.gid = shown.look.gid
    /\ r.gid \in Groups => r.user = Named(Users, r.uid) /\ r.group = Named(Groups, r.gid)
    /\ shown.look.rss # 0 => r.memory = shown.look.rss /\ r.cmdline = FirstWord[shown.look.prog]
    /\ shown.look.uid \notin Private => r.io = shown.version /\ r.fds = shown.version

\* When Update reports after its loop has run, every listed process that has not
\* changed since the listing and whose files could be opened is described as it is:
\* by the first word of its own name, if it has not changed since its record was
\* created either, and by its command line up to the first blank.  (When the sizes
\* agree the loop does not run, and what is reported is as old as the last one that
\* did.)
ReportedAsIs ==
    pc = "report" /\ Cardinality(pids) # Cardinality(before) =>
        \A p \in tracked \cap pids :
            p \in running /\ image[p].version = seen[p] /\ mark[p].missed = {} =>
                /\ Describes(record[p], image[p])
                /\ mark[p].born = seen[p] => record[p].name = FirstWord[image[p].look.prog]

\* A record is left half filled only if its process exited during the parse or if
\* its status or cmdline file did not open, and by no other failure: that of a
\* process that is still there has a name, and a share of the memory that goes with
\* its memory.
HalfFilledCause ==
    \A p \in tracked :
        cur # p /\ LifeOf(p) = mark[p].life /\ p \in running =>
            /\ "status" \notin mark[p].missed => record[p].name # ""
            /\ {"status", "cmdline"} \cap mark[p].missed = {} =>
                   record[p].memPercent = Percent(record[p].memory, mark[p].total)

\* No process seems to have used more processor time than has passed between the
\* two reads of its stat file, unless its pid was reused between them: only then
\* does now - cpu wrap.
DeltaSound ==
    \A p \in tracked : OneLife(mark[p]) => record[p].deltaCpu <= mark[p].at - mark[p].from

\* The share of the processors reported after the loop, for a process that is
\* still there, is at most the whole, up to the time between the reads of
\* /proc/stat and of the process's stat, provided that the window of the process
\* does not begin before that of /proc/stat, and that the parse got to its end.
\* (The window begins earlier when the loop was skipped in between, or when a packet had the record
\* created: the share then exceeds 100.)
ShareBounded ==
    pc = "report" /\ Cardinality(pids) # Cardinality(before) =>
        \A p \in tracked \cap pids :
            LET m == mark[p]
                share == record[p].cpuPercent
            IN  /\ p \in running /\ LifeOf(p) = m.life /\ OneLife(m)
                /\ m.from >= cpu - deltaCpu /\ m.missed \subseteq {"io", "fd"}
                => share.num <= 100 * (share.den + (m.at - cpu))
=============================================================================
