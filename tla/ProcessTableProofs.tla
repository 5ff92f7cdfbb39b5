------------------------- MODULE ProcessTableProofs -------------------------
(***************************************************************************)
(* What the process records say, for every set of pids, every population   *)
(* of processes and any number of calls.                                   *)
(***************************************************************************)
EXTENDS ProcessTable, TLAPS

(***************************************************************************)
(* The inductive invariant.  Everything read from the clock is at most     *)
(* what it shows now; lives and versions never come back; while a process  *)
(* lives, its cpu time has grown by no more than the clock since its last  *)
(* read; a record under parse is right as far as the parse has come, if    *)
(* the process has not changed; and what the loop has passed is right.     *)
(***************************************************************************)
ClockInv ==
    /\ ticks <= MaxTicks /\ cpu <= ticks /\ deltaCpu <= cpu
    /\ \A p \in running : image[p].cpu <= ticks
    /\ \A p \in tracked : record[p].cpu <= ticks

LifeInv ==
    /\ \A p \in running : image[p].life \in 1..changes /\ image[p].version \in 1..changes
    /\ \A p \in DOMAIN seen : seen[p] <= changes
    /\ \A p \in tracked : mark[p].born <= changes /\ mark[p].life <= changes
                            /\ mark[p].reader <= changes

\* How far the cpu time of a process and the clock have come since its last read.
DeltaInv ==
    \A p \in tracked :
        /\ mark[p].from <= mark[p].at /\ mark[p].at <= ticks
        /\ mark[p].reader = 0 => record[p].cpu = 0 /\ mark[p].at = 0
        /\ p \in running /\ mark[p].reader \in {0, image[p].life} =>
              record[p].cpu <= image[p].cpu /\ image[p].cpu - record[p].cpu <= ticks - mark[p].at

\* Process p is still the one its record was last turned to, and p has not
\* changed since it was listed.
Alive(p) == p \in running /\ image[p].life = mark[p].life
Steady(p) == p \in running /\ p \in DOMAIN seen /\ image[p].version = seen[p]

\* The parse of p, if it is under way, is past the file.
Past(p, files) == cur = p => file \notin files

WholeInv ==
    /\ \A p \in tracked : Alive(p) =>
          /\ Past(p, {"status"}) /\ "status" \notin mark[p].missed => record[p].name # ""
          /\ /\ Past(p, {"status", "cmdline", "io", "fd"})
             /\ {"status", "cmdline"} \cap mark[p].missed = {}
             => record[p].memPercent = Percent(record[p].memory, mark[p].total)
    /\ file # "none" => mark[cur].total = memory

NameInv ==
    \A p \in tracked : p \in running /\ image[p].version = mark[p].born =>
        /\ record[p].name \in {"", FirstWord[image[p].look.prog]}
        /\ Past(p, {"status"}) /\ "status" \notin mark[p].missed =>
              record[p].name = FirstWord[image[p].look.prog]

\* In the loop, the listed processes that processesIt has passed.
Visited == IF pc = "report" /\ Cardinality(pids) = Cardinality(before) THEN {}
           ELSE IF pc \in {"merge", "report"} THEN (tracked \cap pids) \ procIt ELSE {}

LoopInv ==
    /\ pc = "merge" => /\ procIt \subseteq tracked /\ pidIt \subseteq pids
                       /\ pids \cap procIt \subseteq pidIt
    /\ pc = "report" /\ Cardinality(pids) # Cardinality(before) => pids \cap procIt = {}
    /\ pc \in {"adopt", "packets", "merge", "report"} => DOMAIN seen = pids
    /\ pc \in {"idle", "list", "report"} => file = "none"
    /\ pc = "merge" /\ file # "none" => cur \in Visited

FreshInv ==
    \A p \in Visited : Steady(p) /\ mark[p].missed = {} =>
        LET r == record[p]
            look == image[p].look
        IN  /\ Past(p, {"status"}) =>
                  /\ r.uid = look.uid /\ r.gid = look.gid
                  /\ look.rss # 0 => r.memory = look.rss
            /\ Past(p, {"status", "cmdline"}) /\ look.rss # 0 => r.cmdline = FirstWord[look.prog]
            /\ Past(p, {"status", "cmdline", "io"}) /\ look.uid \notin Private => r.io = image[p].version
            /\ Past(p, {"status", "cmdline", "io", "fd"}) =>
                  /\ look.uid \notin Private => r.fds = image[p].version
                  /\ r.gid \in Groups => r.user = Named(Users, r.uid) /\ r.group = Named(Groups, r.gid)

ShareInv ==
    \A p \in Visited : Alive(p) /\ cur # p /\ mark[p].missed \subseteq {"io", "fd"} =>
        record[p].cpuPercent = Percent(record[p].deltaCpu, deltaCpu)

BaseInv == TableTypeOK /\ ClockInv /\ LifeInv

TableInv == BaseInv /\ DeltaInv /\ DeltaSound /\ WholeInv /\ NameInv /\ LoopInv /\ FreshInv /\ ShareInv
-----------------------------------------------------------------------------
(* The system                                                              *)

\* What a step of the system may do to a process: let it run on and perhaps
\* change, under a new version, or start it, with a new life.
RunsOn(p) ==
    /\ p \in running
    /\ image'[p].life = image[p].life
    /\ \/ image'[p].version = image[p].version /\ image'[p].look = image[p].look
       \/ image'[p].version = changes + 1 /\ changes' = changes + 1
    /\ image'[p].cpu >= image[p].cpu
    /\ image'[p].cpu - image[p].cpu <= ticks' - ticks

Starts(p) ==
    /\ changes' = changes + 1
    /\ image'[p].life = changes' /\ image'[p].version = changes'
    /\ image'[p].cpu = 0

\* The two records a step of the system builds.
LEMMA ChangedType ==
    ASSUME NEW r \in Image, NEW v \in Nat, NEW look \in Look
    PROVE  /\ Changed(r, v, look) \in Image
           /\ Changed(r, v, look).life = r.life /\ Changed(r, v, look).version = v
           /\ Changed(r, v, look).cpu = r.cpu /\ Changed(r, v, look).look = look
  BY DEF Changed, Image

LEMMA AgedType ==
    ASSUME NEW r \in Image
    PROVE  /\ Aged(r) \in Image
           /\ Aged(r).life = r.life /\ Aged(r).version = r.version
           /\ Aged(r).cpu = r.cpu + 1 /\ Aged(r).look = r.look
  BY DEF Aged, Image

LEMMA ImageStep ==
    ASSUME ImageTypeOK, ticks <= MaxTicks, ImageNext
    PROVE  /\ ImageTypeOK'
           /\ ticks <= ticks' /\ ticks' <= MaxTicks /\ changes <= changes'
           /\ \A p \in running' : RunsOn(p) \/ Starts(p)
  <1>0. /\ running \in SUBSET Pids /\ changes \in Nat /\ ticks \in Nat /\ MaxTicks \in Nat
        /\ \A p \in running : image[p] \in Image /\ image[p].cpu \in Nat
    BY ImageAssumption DEF ImageTypeOK, Image
  <1>1. ASSUME NEW p \in Pids, NEW look \in Looks, Start(p, look)
        PROVE  /\ running' = running \cup {p} /\ changes' = changes + 1 /\ ticks' = ticks
               /\ \A q \in running \ {p} : image'[q] = image[q]
               /\ image'[p] \in Image /\ image'[p].life = changes' /\ image'[p].version = changes'
               /\ image'[p].cpu = 0 /\ image'[p].look = look
               /\ image' = [q \in running' |-> image'[q]]
    BY <1>0, <1>1, ImageAssumption DEF Start, running, Image
  <1>2. ASSUME NEW p \in Pids, NEW look \in Looks, Become(p, look)
        PROVE  /\ running' = running /\ changes' = changes + 1 /\ ticks' = ticks
               /\ \A q \in running \ {p} : image'[q] = image[q]
               /\ image'[p] = Changed(image[p], changes', look) /\ p \in running
               /\ image' = [q \in running' |-> image'[q]]
    BY <1>0, <1>2 DEF Become, running, ImageTypeOK
  <1>3. ASSUME NEW p \in Pids, Exit(p)
        PROVE  /\ running' = running \ {p} /\ changes' = changes /\ ticks' = ticks
               /\ \A q \in running' : image'[q] = image[q]
               /\ image' = [q \in running' |-> image'[q]]
    BY <1>0, <1>3 DEF Exit, running
  <1>4. ASSUME NEW p \in Pids, Run(p)
        PROVE  /\ running' = running /\ changes' = changes /\ ticks' = ticks + 1 /\ ticks < MaxTicks
               /\ \A q \in running \ {p} : image'[q] = image[q]
               /\ image'[p] = Aged(image[p]) /\ p \in running
               /\ image' = [q \in running' |-> image'[q]]
    BY <1>0, <1>4 DEF Run, running, ImageTypeOK
  <1>5. ASSUME Idle
        PROVE  /\ running' = running /\ changes' = changes /\ ticks' = ticks + 1 /\ ticks < MaxTicks
               /\ image' = image
    BY <1>5 DEF Idle, running
  <1> HIDE DEF running
  <1>6. CASE \E p \in Pids, look \in Looks : Start(p, look)
    BY <1>0, <1>1, <1>6 DEF ImageTypeOK, RunsOn, Starts
  <1>7. CASE \E p \in Pids, look \in Looks : Become(p, look)
    <2> PICK p \in Pids, look \in Looks : Become(p, look)
      BY <1>7
    <2>1. look \in Look /\ changes + 1 \in Nat /\ changes' = changes + 1
      BY <1>0, <1>2, ImageAssumption
    <2> QED BY <1>0, <1>2, <2>1, ChangedType DEF ImageTypeOK, RunsOn
  <1>8. CASE \E p \in Pids : Exit(p)
    BY <1>0, <1>3, <1>8 DEF ImageTypeOK, RunsOn
  <1>9. CASE \E p \in Pids : Run(p)
    BY <1>0, <1>4, <1>9, AgedType DEF ImageTypeOK, RunsOn
  <1>10. CASE Idle
    BY <1>0, <1>5, <1>10 DEF ImageTypeOK, RunsOn
  <1> QED BY <1>6, <1>7, <1>8, <1>9, <1>10 DEF ImageNext
-----------------------------------------------------------------------------
(* The fields of a record.  Each reader changes its own and no other.      *)

LEMMA WordFacts == Word \in Nat \ {0} /\ MaxTicks \in Nat /\ 100 * MaxTicks < Word /\ Total \in Nat
  <1>1. Total \in Nat /\ Word \in Nat /\ 100 * MaxTicks < Word
    BY TableAssumption, Zenon
  <1>2. MaxTicks \in Nat
    BY ImageAssumption
  <1> QED BY <1>1, <1>2

LEMMA PercentType ==
    ASSUME NEW a \in Nat, NEW b \in Nat
    PROVE  Percent(a, b) \in Share
  <1>1. 100 * a \in Nat
    OBVIOUS
  <1>2. \A x \in Nat : x % Word \in Nat
    BY WordFacts
  <1>3. (100 * a) % Word \in Nat
    BY <1>1, <1>2
  <1> QED BY <1>3 DEF Percent, Share

LEMMA WordType ==
    ASSUME NEW look \in Look
    PROVE  FirstWord[look.prog] \in Words /\ FirstWord[look.prog] # ""
  <1>1. look.prog \in Programs
    BY DEF Look
  <1>2. FirstWord \in [Programs -> Words] /\ "" \notin Words
    BY TableAssumption, Zenon
  <1> QED BY <1>1, <1>2

LEMMA StatusFields ==
    ASSUME NEW r \in Record, NEW look \in Look
    PROVE  LET n == ReadStatus(r, look)
           IN  /\ n \in Record
               /\ n.name = (IF r.name = "" THEN FirstWord[look.prog] ELSE r.name)
               /\ n.memory = (IF look.rss = 0 THEN r.memory ELSE look.rss)
               /\ n.uid = look.uid /\ n.gid = look.gid
               /\ n.cpu = r.cpu /\ n.deltaCpu = r.deltaCpu
  BY WordType DEF ReadStatus, Record, Look

LEMMA CmdlineFields ==
    ASSUME NEW r \in Record, NEW look \in Look
    PROVE  LET n == ReadCmdline(r, look)
           IN  /\ n \in Record
               /\ n.cmdline = (IF look.rss = 0 THEN r.cmdline ELSE FirstWord[look.prog])
               /\ n.name = r.name /\ n.memory = r.memory /\ n.uid = r.uid /\ n.gid = r.gid
               /\ n.cpu = r.cpu /\ n.deltaCpu = r.deltaCpu
  BY WordType DEF ReadCmdline, Record, Look

LEMMA IoFields ==
    ASSUME NEW r \in Record, NEW v \in Nat
    PROVE  LET n == ReadIo(r, v)
           IN  /\ n \in Record /\ n.io = v
               /\ n.cmdline = r.cmdline /\ n.name = r.name /\ n.memory = r.memory
               /\ n.uid = r.uid /\ n.gid = r.gid
               /\ n.cpu = r.cpu /\ n.deltaCpu = r.deltaCpu
  BY DEF ReadIo, Record

LEMMA OwnerFields ==
    ASSUME NEW r \in Record
    PROVE  LET n == ParseUserAndGroup(r)
           IN  /\ n \in Record
               /\ n.gid \in Groups => n.user = Named(Users, n.uid) /\ n.group = Named(Groups, n.gid)
               /\ n.cmdline = r.cmdline /\ n.name = r.name /\ n.memory = r.memory
               /\ n.io = r.io /\ n.uid = r.uid /\ n.gid = r.gid
               /\ n.cpu = r.cpu /\ n.deltaCpu = r.deltaCpu
  <1>1. \A db, id : id \in Nat => Named(db, id) \in Name
    BY DEF Named, Name
  <1>2. CASE r.gid \in Groups
    BY <1>1, <1>2 DEF ParseUserAndGroup, Record
  <1>3. CASE r.gid \notin Groups
    BY <1>1, <1>3 DEF ParseUserAndGroup, Record
  <1> QED BY <1>2, <1>3

LEMMA FdsFields ==
    ASSUME NEW r \in Record, NEW v \in Nat
    PROVE  LET n == ReadFds(r, v)
           IN  /\ n \in Record /\ n.fds = v
               /\ n.user = r.user /\ n.group = r.group
               /\ n.cmdline = r.cmdline /\ n.name = r.name /\ n.memory = r.memory
               /\ n.io = r.io /\ n.uid = r.uid /\ n.gid = r.gid
               /\ n.cpu = r.cpu /\ n.deltaCpu = r.deltaCpu
  BY DEF ReadFds, Record

LEMMA MemShareFields ==
    ASSUME NEW r \in Record, memory \in Nat
    PROVE  LET n == MemShare(r)
           IN  /\ n \in Record /\ n.memPercent = Percent(n.memory, memory)
               /\ n.fds = r.fds /\ n.user = r.user /\ n.group = r.group
               /\ n.cmdline = r.cmdline /\ n.name = r.name /\ n.memory = r.memory
               /\ n.io = r.io /\ n.uid = r.uid /\ n.gid = r.gid
               /\ n.cpu = r.cpu /\ n.deltaCpu = r.deltaCpu
  <1>1. Percent(r.memory, memory) \in Share
    BY PercentType DEF Record
  <1> QED BY <1>1 DEF MemShare, Record

LEMMA ScanFields ==
    ASSUME NEW r \in Record, NEW prog, NEW now \in Nat, r.cpu <= MaxTicks
    PROVE  LET n == ScanStat(r, prog, now)
           IN  /\ n \in Record
               /\ prog \in Spaced => n.cpu = r.cpu /\ n.deltaCpu = r.deltaCpu
               /\ prog \notin Spaced => n.cpu = now /\ n.deltaCpu = Minus(now, r.cpu)
               /\ n.memPercent = r.memPercent
               /\ n.fds = r.fds /\ n.user = r.user /\ n.group = r.group
               /\ n.cmdline = r.cmdline /\ n.name = r.name /\ n.memory = r.memory
               /\ n.io = r.io /\ n.uid = r.uid /\ n.gid = r.gid
  <1>1. r.cpu \in Nat
    BY DEF Record
  <1>2. Minus(now, r.cpu) \in Nat
    BY <1>1, WordFacts DEF Minus
  <1> QED BY <1>2 DEF ScanStat, Record

LEMMA CpuShareFields ==
    ASSUME NEW r \in Record, deltaCpu \in Nat
    PROVE  LET n == CpuShare(r)
           IN  /\ n \in Record /\ n.cpuPercent = Percent(n.deltaCpu, deltaCpu)
               /\ n.cpu = r.cpu /\ n.deltaCpu = r.deltaCpu /\ n.memPercent = r.memPercent
               /\ n.fds = r.fds /\ n.user = r.user /\ n.group = r.group
               /\ n.cmdline = r.cmdline /\ n.name = r.name /\ n.memory = r.memory
               /\ n.io = r.io /\ n.uid = r.uid /\ n.gid = r.gid
  <1>1. Percent(r.deltaCpu, deltaCpu) \in Share
    BY PercentType DEF Record
  <1> QED BY <1>1 DEF CpuShare, Record

LEMMA MarkReadFields ==
    ASSUME NEW m \in Mark, NEW life \in Nat, NEW now \in Nat
    PROVE  LET n == MarkRead(m, life, now)
           IN  /\ n \in Mark /\ n.born = m.born /\ n.life = m.life /\ n.total = m.total
               /\ n.missed = m.missed
               /\ n.prior = m.reader /\ n.reader = life /\ n.from = m.at /\ n.at = now
  BY DEF MarkRead, Mark

LEMMA MarkTurnFields ==
    ASSUME NEW m \in Mark, NEW life \in Nat, memory \in Nat
    PROVE  LET n == MarkTurn(m, life)
           IN  /\ n \in Mark /\ n.life = life /\ n.total = memory /\ n.born = m.born
               /\ n.prior = m.prior /\ n.reader = m.reader /\ n.from = m.from /\ n.at = m.at
               /\ n.missed = {}
  BY DEF MarkTurn, Mark

LEMMA MissedFields ==
    ASSUME NEW m \in Mark, NEW f \in Files
    PROVE  LET n == MarkMiss(m, f)
           IN  /\ n \in Mark /\ n.born = m.born /\ n.life = m.life /\ n.total = m.total
               /\ n.prior = m.prior /\ n.reader = m.reader /\ n.from = m.from /\ n.at = m.at
               /\ n.missed = m.missed \cup {f}
  BY DEF MarkMiss, Mark
-----------------------------------------------------------------------------
(* The steps of a parse                                                    *)

\* What every step of a parse leaves alone.
ParseFrame ==
    /\ image' = image /\ changes' = changes /\ ticks' = ticks /\ running' = running
    /\ pids' = pids /\ processes' = processes /\ tracked' = tracked
    /\ pidIt' = pidIt /\ procIt' = procIt /\ before' = before
    /\ pc' = pc /\ op' = op /\ inits' = inits /\ updates' = updates
    /\ memory' = memory /\ cpu' = cpu /\ deltaCpu' = deltaCpu /\ seen' = seen

LEMMA ParsingFrame ==
    ASSUME NEW n, Parsing(n)
    PROVE  file = n /\ ParseFrame
  BY DEF Parsing, ParseFrame, imageVars, mergeVars, callVars, running, tracked

\* The types a step of a parse needs.
LEMMA CurType ==
    ASSUME TableTypeOK, ClockInv, file # "none"
    PROVE  /\ cur \in tracked /\ cur \in Pids
           /\ record[cur] \in Record /\ mark[cur] \in Mark
           /\ record[cur].cpu <= MaxTicks
           /\ LifeOf(cur) \in Nat /\ VersionOf(cur) \in Nat
           /\ ticks \in Nat /\ memory \in Nat /\ deltaCpu \in Nat
           /\ cur \in running => Shown \in Look /\ image[cur].cpu \in Nat
  <1>1. cur \in tracked /\ cur \in Pids /\ record[cur] \in Record /\ mark[cur] \in Mark
    BY DEF TableTypeOK, MergeTypeOK
  <1>2. record[cur].cpu <= ticks /\ record[cur].cpu \in Nat /\ ticks \in Nat /\ ticks <= MaxTicks
    BY <1>1 DEF TableTypeOK, ClockInv, Record, ImageTypeOK
  <1>3. cur \in running => image[cur] \in Image
    BY DEF TableTypeOK, ImageTypeOK
  <1> QED BY <1>1, <1>2, <1>3, WordFacts DEF TableTypeOK, LifeOf, VersionOf, Shown, Image

LEMMA Filled ==
    ASSUME TableTypeOK, file # "none", NEW fields \in Record, NEW next, Fill(fields, next)
    PROVE  /\ record' \in [tracked -> Record]
           /\ record'[cur] = fields /\ \A q \in tracked \ {cur} : record'[q] = record[q]
           /\ file' = next /\ cur' = IF next = "none" THEN -1 ELSE cur
  BY DEF TableTypeOK, Fill

\* What a step of a parse adds to the history of cur.
MarkKept ==
    /\ mark'[cur].born = mark[cur].born /\ mark'[cur].life = mark[cur].life
    /\ mark'[cur].total = mark[cur].total /\ mark'[cur].prior = mark[cur].prior
    /\ mark'[cur].reader = mark[cur].reader /\ mark'[cur].from = mark[cur].from
    /\ mark'[cur].at = mark[cur].at /\ mark[cur].missed \subseteq mark'[cur].missed

LEMMA Missed ==
    ASSUME TableTypeOK, file # "none", NEW missed, MarkMissed(missed)
    PROVE  /\ mark' \in [tracked -> Mark] /\ misses' \in Nat
           /\ \A q \in tracked \ {cur} : mark'[q] = mark[q]
           /\ MarkKept
           /\ missed => file \in mark'[cur].missed
  <1>1. /\ cur \in tracked /\ mark \in [tracked -> Mark] /\ misses \in Nat /\ file \in Files
        /\ mark[cur] \in Mark
    BY DEF TableTypeOK
  <1>2. CASE ~missed
    BY <1>1, <1>2 DEF MarkMissed, MarkKept
  <1>3. CASE missed
    <2> DEFINE n == MarkMiss(mark[cur], file)
               m == mark[cur]
    <2>1. mark' = [mark EXCEPT ![cur] = n] /\ misses' = misses + 1
      BY <1>3 DEF MarkMissed
    <2>2. /\ n \in Mark /\ n.born = m.born /\ n.life = m.life /\ n.total = m.total
          /\ n.prior = m.prior /\ n.reader = m.reader /\ n.from = m.from /\ n.at = m.at
          /\ n.missed = m.missed \cup {file}
      BY <1>1, MissedFields
    <2> HIDE DEF n
    <2>3. /\ mark' \in [tracked -> Mark] /\ mark'[cur] = n
          /\ \A q \in tracked \ {cur} : mark'[q] = mark[q]
      BY <1>1, <2>1, <2>2
    <2> QED BY <1>1, <2>1, <2>2, <2>3 DEF MarkKept
  <1> QED BY <1>2, <1>3

\* Each step of a parse, as what it does to the record of cur.
LEMMA ParseStep ==
    ASSUME TableTypeOK, ClockInv, Parse
    PROVE  /\ ParseFrame /\ file # "none" /\ misses' \in Nat
           /\ record' \in [tracked -> Record] /\ mark' \in [tracked -> Mark]
           /\ \A q \in tracked \ {cur} : record'[q] = record[q] /\ mark'[q] = mark[q]
           /\ cur' = IF file' = "none" THEN -1 ELSE cur
           /\ \/ /\ file \in {"status", "cmdline", "stat"} /\ file' = "none"
                 /\ record'[cur] = record[cur]
                 /\ MarkKept
                 /\ cur \in running => file \in mark'[cur].missed
              \/ /\ file = "status" /\ file' = "cmdline" /\ cur \in running /\ mark'[cur] = mark[cur]
                 /\ record'[cur] = ReadStatus(record[cur], Shown)
              \/ /\ file = "cmdline" /\ file' = "io" /\ cur \in running /\ mark'[cur] = mark[cur]
                 /\ record'[cur] = ReadCmdline(record[cur], Shown)
              \/ \E opened \in BOOLEAN :
                    /\ file = "io" /\ file' = "fd"
                    /\ MarkKept
                    /\ Readable /\ ~opened => mark'[cur].missed # {}
                    /\ record'[cur] = IF opened THEN ReadIo(record[cur], VersionOf(cur))
                                                ELSE record[cur]
              \/ \E opened \in BOOLEAN :
                    /\ file = "fd" /\ file' = "stat"
                    /\ MarkKept
                    /\ Readable /\ ~opened => mark'[cur].missed # {}
                    /\ record'[cur] = LET r == ParseUserAndGroup(record[cur])
                                      IN  MemShare(IF opened THEN ReadFds(r, VersionOf(cur)) ELSE r)
              \/ /\ file = "stat" /\ file' = "none" /\ cur \in running
                 /\ record'[cur] = CpuShare(ScanStat(record[cur], Shown.prog, image[cur].cpu))
                 /\ mark'[cur] = IF Shown.prog \in Spaced THEN mark[cur]
                                 ELSE MarkRead(mark[cur], LifeOf(cur), ticks)
  <1>0. mark \in [tracked -> Mark] /\ misses \in Nat
    BY DEF TableTypeOK
  <1>1. CASE ParseReturns
    <2>1. /\ file \in {"status", "cmdline", "stat"} /\ file # "none" /\ ParseFrame
          /\ Fill(record[cur], "none") /\ MarkMissed(cur \in running)
      BY <1>1, ParsingFrame DEF ParseReturns
    <2>2. cur \in tracked /\ record[cur] \in Record
      BY <2>1, CurType
    <2>3. /\ mark' \in [tracked -> Mark] /\ misses' \in Nat
          /\ \A q \in tracked \ {cur} : mark'[q] = mark[q]
          /\ MarkKept
          /\ cur \in running => file \in mark'[cur].missed
      BY <2>1, Missed
    <2>4. record'[cur] = record[cur] /\ file' = "none" /\ cur' = -1 /\ record' \in [tracked -> Record]
          /\ \A q \in tracked \ {cur} : record'[q] = record[q]
      BY <2>1, <2>2, Filled
    <2> QED BY <2>1, <2>3, <2>4
  <1>2. CASE ParseStatus
    <2>1. file = "status" /\ ParseFrame /\ cur \in running /\ mark' = mark /\ misses' = misses
          /\ Fill(ReadStatus(record[cur], Shown), "cmdline")
      BY <1>2, ParsingFrame DEF ParseStatus
    <2>2. cur \in tracked /\ ReadStatus(record[cur], Shown) \in Record
      BY <2>1, CurType, StatusFields
    <2> QED BY <1>0, <2>1, <2>2, Filled
  <1>3. CASE ParseCmdline
    <2>1. file = "cmdline" /\ ParseFrame /\ cur \in running /\ mark' = mark /\ misses' = misses
          /\ Fill(ReadCmdline(record[cur], Shown), "io")
      BY <1>3, ParsingFrame DEF ParseCmdline
    <2>2. cur \in tracked /\ ReadCmdline(record[cur], Shown) \in Record
      BY <2>1, CurType, CmdlineFields
    <2> QED BY <1>0, <2>1, <2>2, Filled
  <1>4. ASSUME NEW opened \in BOOLEAN, ParseIo(opened)
        PROVE  /\ ParseFrame /\ file = "io" /\ file' = "fd" /\ cur' = cur /\ misses' \in Nat
               /\ record' \in [tracked -> Record] /\ mark' \in [tracked -> Mark]
               /\ \A q \in tracked \ {cur} : record'[q] = record[q] /\ mark'[q] = mark[q]
               /\ MarkKept
               /\ Readable /\ ~opened => mark'[cur].missed # {}
               /\ record'[cur] = IF opened THEN ReadIo(record[cur], VersionOf(cur)) ELSE record[cur]
    <2> DEFINE n == IF opened THEN ReadIo(record[cur], VersionOf(cur)) ELSE record[cur]
    <2>1. file = "io" /\ ParseFrame /\ Fill(n, "fd") /\ MarkMissed(Readable /\ ~opened)
      BY <1>4, ParsingFrame DEF ParseIo
    <2>2. cur \in tracked /\ n \in Record
      BY <2>1, CurType, IoFields
    <2> HIDE DEF n
    <2>3. record'[cur] = n /\ file' = "fd" /\ cur' = cur /\ record' \in [tracked -> Record]
          /\ \A q \in tracked \ {cur} : record'[q] = record[q]
      BY <2>1, <2>2, Filled
    <2>4. /\ mark' \in [tracked -> Mark] /\ misses' \in Nat
          /\ \A q \in tracked \ {cur} : mark'[q] = mark[q]
          /\ MarkKept
          /\ Readable /\ ~opened => file \in mark'[cur].missed
      BY <2>1, Missed
    <2> QED BY <2>1, <2>2, <2>3, <2>4 DEF n
  <1>5. ASSUME NEW opened \in BOOLEAN, ParseHandle(opened)
        PROVE  /\ ParseFrame /\ file = "fd" /\ file' = "stat" /\ cur' = cur /\ misses' \in Nat
               /\ record' \in [tracked -> Record] /\ mark' \in [tracked -> Mark]
               /\ \A q \in tracked \ {cur} : record'[q] = record[q] /\ mark'[q] = mark[q]
               /\ MarkKept
               /\ Readable /\ ~opened => mark'[cur].missed # {}
               /\ record'[cur] = LET r == ParseUserAndGroup(record[cur])
                                 IN  MemShare(IF opened THEN ReadFds(r, VersionOf(cur)) ELSE r)
    <2> DEFINE r == ParseUserAndGroup(record[cur])
               n == MemShare(IF opened THEN ReadFds(r, VersionOf(cur)) ELSE r)
    <2>1. file = "fd" /\ ParseFrame /\ Fill(n, "stat") /\ MarkMissed(Readable /\ ~opened)
      BY <1>5, ParsingFrame DEF ParseHandle
    <2>2. r \in Record
      BY <2>1, CurType, OwnerFields
    <2> HIDE DEF r
    <2>3. cur \in tracked /\ n \in Record
      BY <2>1, <2>2, CurType, FdsFields, MemShareFields
    <2> HIDE DEF n
    <2>4. record'[cur] = n /\ file' = "stat" /\ cur' = cur /\ record' \in [tracked -> Record]
          /\ \A q \in tracked \ {cur} : record'[q] = record[q]
      BY <2>1, <2>3, Filled
    <2>5. /\ mark' \in [tracked -> Mark] /\ misses' \in Nat
          /\ \A q \in tracked \ {cur} : mark'[q] = mark[q]
          /\ MarkKept
          /\ Readable /\ ~opened => file \in mark'[cur].missed
      BY <2>1, Missed
    <2> QED BY <2>1, <2>3, <2>4, <2>5 DEF n, r
  <1>6. CASE ParseStat
    <2> DEFINE r == ScanStat(record[cur], Shown.prog, image[cur].cpu)
               n == CpuShare(r)
               m == IF Shown.prog \in Spaced THEN mark[cur]
                    ELSE MarkRead(mark[cur], LifeOf(cur), ticks)
    <2>1. file = "stat" /\ ParseFrame /\ cur \in running /\ Fill(n, "none") /\ misses' = misses
          /\ mark' = IF Shown.prog \in Spaced THEN mark
                     ELSE [mark EXCEPT ![cur] = MarkRead(mark[cur], LifeOf(cur), ticks)]
      BY <1>6, ParsingFrame DEF ParseStat
    <2>2. r \in Record
      BY <2>1, CurType, ScanFields
    <2> HIDE DEF r
    <2>3. cur \in tracked /\ n \in Record
      BY <2>1, <2>2, CurType, CpuShareFields
    <2> HIDE DEF n
    <2>4. record'[cur] = n /\ file' = "none" /\ cur' = -1 /\ record' \in [tracked -> Record]
          /\ \A q \in tracked \ {cur} : record'[q] = record[q]
      BY <2>1, <2>3, Filled
    <2>5. MarkRead(mark[cur], LifeOf(cur), ticks) \in Mark
      BY <2>1, CurType, MarkReadFields
    <2>6. mark' \in [tracked -> Mark] /\ mark'[cur] = m
          /\ \A q \in tracked \ {cur} : mark'[q] = mark[q]
      BY <1>0, <2>1, <2>3, <2>5
    <2> QED BY <1>0, <2>1, <2>3, <2>4, <2>6 DEF n, r
  <1>7. CASE \E opened \in BOOLEAN : ParseIo(opened)
    BY <1>4, <1>7
  <1>8. CASE \E opened \in BOOLEAN : ParseHandle(opened)
    BY <1>5, <1>8
  <1> QED BY <1>1, <1>2, <1>3, <1>6, <1>7, <1>8 DEF Parse

\* The same, field by field.
CpuKept == record'[cur].cpu = record[cur].cpu /\ record'[cur].deltaCpu = record[cur].deltaCpu
           /\ MarkKept

StatusKept == /\ record'[cur].name = record[cur].name /\ record'[cur].memory = record[cur].memory
              /\ record'[cur].uid = record[cur].uid /\ record'[cur].gid = record[cur].gid

Returned ==
    /\ file \in {"status", "cmdline", "stat"} /\ file' = "none"
    /\ record'[cur] = record[cur] /\ MarkKept
    /\ cur \in running => file \in mark'[cur].missed

StatusRead ==
    /\ file = "status" /\ file' = "cmdline" /\ cur \in running /\ CpuKept
    /\ record'[cur].name = (IF record[cur].name = "" THEN FirstWord[Shown.prog] ELSE record[cur].name)
    /\ record'[cur].memory = (IF Shown.rss = 0 THEN record[cur].memory ELSE Shown.rss)
    /\ record'[cur].uid = Shown.uid /\ record'[cur].gid = Shown.gid

CmdlineRead ==
    /\ file = "cmdline" /\ file' = "io" /\ cur \in running /\ CpuKept /\ StatusKept
    /\ record'[cur].cmdline = (IF Shown.rss = 0 THEN record[cur].cmdline ELSE FirstWord[Shown.prog])

IoRead ==
    /\ file = "io" /\ file' = "fd" /\ CpuKept /\ StatusKept
    /\ record'[cur].cmdline = record[cur].cmdline
    /\ Readable /\ mark'[cur].missed = {} => record'[cur].io = VersionOf(cur)

FdsRead ==
    /\ file = "fd" /\ file' = "stat" /\ CpuKept /\ StatusKept
    /\ record'[cur].cmdline = record[cur].cmdline /\ record'[cur].io = record[cur].io
    /\ Readable /\ mark'[cur].missed = {} => record'[cur].fds = VersionOf(cur)
    /\ record'[cur].gid \in Groups => /\ record'[cur].user = Named(Users, record'[cur].uid)
                                      /\ record'[cur].group = Named(Groups, record'[cur].gid)
    /\ record'[cur].memPercent = Percent(record'[cur].memory, memory)

StatRead ==
    /\ file = "stat" /\ file' = "none" /\ cur \in running /\ StatusKept
    /\ record'[cur].cmdline = record[cur].cmdline /\ record'[cur].io = record[cur].io
    /\ record'[cur].fds = record[cur].fds /\ record'[cur].memPercent = record[cur].memPercent
    /\ record'[cur].user = record[cur].user /\ record'[cur].group = record[cur].group
    /\ record'[cur].cpuPercent = Percent(record'[cur].deltaCpu, deltaCpu)
    /\ mark'[cur].born = mark[cur].born /\ mark'[cur].life = mark[cur].life
    /\ mark'[cur].total = mark[cur].total /\ mark[cur].missed \subseteq mark'[cur].missed
    /\ \/ CpuKept
       \/ /\ record'[cur].cpu = image[cur].cpu
          /\ record'[cur].deltaCpu = Minus(image[cur].cpu, record[cur].cpu)
          /\ mark'[cur].prior = mark[cur].reader /\ mark'[cur].reader = image[cur].life
          /\ mark'[cur].from = mark[cur].at /\ mark'[cur].at = ticks

LEMMA ParseFields ==
    ASSUME TableTypeOK, ClockInv, Parse
    PROVE  Returned \/ StatusRead \/ CmdlineRead \/ IoRead \/ FdsRead \/ StatRead
  <1> DEFINE r == record[cur]
             n == record'[cur]
             m == mark[cur]
             v == VersionOf(cur)
             life == LifeOf(cur)
             look == Shown
             now == image[cur].cpu
  <1>0. /\ r \in Record /\ m \in Mark /\ r.cpu <= MaxTicks /\ v \in Nat /\ life \in Nat
        /\ ticks \in Nat /\ memory \in Nat /\ deltaCpu \in Nat
        /\ cur \in running => look \in Look /\ now \in Nat /\ life = image[cur].life
    BY ParseStep, CurType DEF LifeOf
  <1>1. CASE /\ file \in {"status", "cmdline", "stat"} /\ file' = "none" /\ n = r
             /\ MarkKept
             /\ cur \in running => file \in mark'[cur].missed
    BY <1>1 DEF Returned
  <1>2. CASE /\ file = "status" /\ file' = "cmdline" /\ cur \in running /\ mark'[cur] = m
             /\ n = ReadStatus(r, look)
    <2>0. MarkKept
      BY <1>2 DEF MarkKept
    <2> HIDE DEF r, n, look
    <2>1. /\ n.name = (IF r.name = "" THEN FirstWord[look.prog] ELSE r.name)
          /\ n.memory = (IF look.rss = 0 THEN r.memory ELSE look.rss)
          /\ n.uid = look.uid /\ n.gid = look.gid
          /\ n.cpu = r.cpu /\ n.deltaCpu = r.deltaCpu
      BY <1>0, <1>2, StatusFields
    <2> QED BY <1>2, <2>0, <2>1 DEF StatusRead, CpuKept, r, n, look
  <1>3. CASE /\ file = "cmdline" /\ file' = "io" /\ cur \in running /\ mark'[cur] = m
             /\ n = ReadCmdline(r, look)
    <2>0. MarkKept
      BY <1>3 DEF MarkKept
    <2> HIDE DEF r, n, look
    <2>1. /\ n.cmdline = (IF look.rss = 0 THEN r.cmdline ELSE FirstWord[look.prog])
          /\ n.name = r.name /\ n.memory = r.memory /\ n.uid = r.uid /\ n.gid = r.gid
          /\ n.cpu = r.cpu /\ n.deltaCpu = r.deltaCpu
      BY <1>0, <1>3, CmdlineFields
    <2> QED BY <1>3, <2>0, <2>1 DEF CmdlineRead, CpuKept, StatusKept, r, n, look
  <1>4. ASSUME NEW opened \in BOOLEAN, file = "io", file' = "fd", MarkKept,
               Readable /\ ~opened => mark'[cur].missed # {},
               n = IF opened THEN ReadIo(r, v) ELSE r
        PROVE  IoRead
    <2> HIDE DEF r, n, v
    <2>1. /\ opened => n.io = v
          /\ n.cmdline = r.cmdline /\ n.name = r.name /\ n.memory = r.memory
          /\ n.uid = r.uid /\ n.gid = r.gid /\ n.cpu = r.cpu /\ n.deltaCpu = r.deltaCpu
      BY <1>0, <1>4, IoFields
    <2> QED BY <1>4, <2>1 DEF IoRead, CpuKept, StatusKept, r, n, v
  <1>5. ASSUME NEW opened \in BOOLEAN, file = "fd", file' = "stat", MarkKept,
               Readable /\ ~opened => mark'[cur].missed # {},
               n = LET u == ParseUserAndGroup(r) IN MemShare(IF opened THEN ReadFds(u, v) ELSE u)
        PROVE  FdsRead
    <2> DEFINE u == ParseUserAndGroup(r)
               f == IF opened THEN ReadFds(u, v) ELSE u
    <2> HIDE DEF r, n, v
    <2>1. /\ u \in Record
          /\ u.gid \in Groups => u.user = Named(Users, u.uid) /\ u.group = Named(Groups, u.gid)
          /\ u.cmdline = r.cmdline /\ u.name = r.name /\ u.memory = r.memory
          /\ u.io = r.io /\ u.uid = r.uid /\ u.gid = r.gid /\ u.cpu = r.cpu /\ u.deltaCpu = r.deltaCpu
      BY <1>0, OwnerFields
    <2>2. n = MemShare(f)
      BY <1>5
    <2> HIDE DEF u
    <2>3. /\ f \in Record
          /\ opened => f.fds = v
          /\ f.user = u.user /\ f.group = u.group
          /\ f.cmdline = u.cmdline /\ f.name = u.name /\ f.memory = u.memory
          /\ f.io = u.io /\ f.uid = u.uid /\ f.gid = u.gid /\ f.cpu = u.cpu /\ f.deltaCpu = u.deltaCpu
      BY <1>0, <2>1, FdsFields
    <2> HIDE DEF f
    <2>4. /\ n.memPercent = Percent(n.memory, memory)
          /\ n.fds = f.fds /\ n.user = f.user /\ n.group = f.group
          /\ n.cmdline = f.cmdline /\ n.name = f.name /\ n.memory = f.memory
          /\ n.io = f.io /\ n.uid = f.uid /\ n.gid = f.gid /\ n.cpu = f.cpu /\ n.deltaCpu = f.deltaCpu
      BY <1>0, <2>2, <2>3, MemShareFields
    <2>5. /\ n.cmdline = r.cmdline /\ n.io = r.io /\ n.name = r.name /\ n.memory = r.memory
          /\ n.uid = r.uid /\ n.gid = r.gid /\ n.cpu = r.cpu /\ n.deltaCpu = r.deltaCpu
          /\ opened => n.fds = v
      BY <2>1, <2>3, <2>4
    <2>6. n.gid \in Groups => n.user = Named(Users, n.uid) /\ n.group = Named(Groups, n.gid)
      BY <2>1, <2>3, <2>4, Zenon
    <2> QED BY <1>5, <2>4, <2>5, <2>6 DEF FdsRead, CpuKept, StatusKept, r, n, v
  <1>6. CASE /\ file = "stat" /\ file' = "none" /\ cur \in running
             /\ n = CpuShare(ScanStat(r, look.prog, now))
             /\ mark'[cur] = IF look.prog \in Spaced THEN m ELSE MarkRead(m, life, ticks)
    <2> DEFINE u == ScanStat(r, look.prog, now)
               prog == look.prog
    <2> HIDE DEF r, n, m, life, look, now, prog
    <2>1. /\ u \in Record
          /\ prog \in Spaced => u.cpu = r.cpu /\ u.deltaCpu = r.deltaCpu
          /\ prog \notin Spaced => u.cpu = now /\ u.deltaCpu = Minus(now, r.cpu)
          /\ u.memPercent = r.memPercent
          /\ u.fds = r.fds /\ u.user = r.user /\ u.group = r.group
          /\ u.cmdline = r.cmdline /\ u.name = r.name /\ u.memory = r.memory
          /\ u.io = r.io /\ u.uid = r.uid /\ u.gid = r.gid
      BY <1>0, <1>6, ScanFields DEF prog
    <2>2. n = CpuShare(u)
      BY <1>6
    <2> HIDE DEF u
    <2>3. /\ n.cpuPercent = Percent(n.deltaCpu, deltaCpu)
          /\ n.cpu = u.cpu /\ n.deltaCpu = u.deltaCpu /\ n.memPercent = u.memPercent
          /\ n.fds = u.fds /\ n.user = u.user /\ n.group = u.group
          /\ n.cmdline = u.cmdline /\ n.name = u.name /\ n.memory = u.memory
          /\ n.io = u.io /\ n.uid = u.uid /\ n.gid = u.gid
      BY <1>0, <2>1, <2>2, CpuShareFields
    <2> DEFINE k == MarkRead(m, life, ticks)
    <2>4. /\ k.born = m.born /\ k.life = m.life /\ k.total = m.total /\ k.missed = m.missed
          /\ k.prior = m.reader /\ k.reader = life /\ k.from = m.at /\ k.at = ticks
      <3>1. m \in Mark /\ life \in Nat /\ ticks \in Nat
        BY <1>0
      <3> QED BY ONLY <3>1, MarkReadFields
    <2>5. mark'[cur] = IF prog \in Spaced THEN m ELSE k
      BY <1>6 DEF prog
    <2> HIDE DEF k
    <2>6. CASE prog \in Spaced
      BY <1>6, <2>1, <2>3, <2>5, <2>6 DEF StatRead, CpuKept, MarkKept, StatusKept, r, n, m
    <2>7. CASE prog \notin Spaced
      <3>1. life = image[cur].life
        BY <1>0, <1>6
      <3> QED BY <1>6, <2>1, <2>3, <2>4, <2>5, <2>7, <3>1 DEF StatRead, StatusKept, r, n, m, now
    <2> QED BY <2>6, <2>7
  <1> QED BY <1>1, <1>2, <1>3, <1>4, <1>5, <1>6, ParseStep

-----------------------------------------------------------------------------
(* The steps of the calls                                                  *)

LEMMA NewFields ==
    ASSUME TableTypeOK, NEW p \in Pids
    PROVE  /\ NewRecord \in Record /\ NewRecord.cpu = 0 /\ NewRecord.deltaCpu = 0
           /\ NewRecord.name = ""
           /\ NewMark(p) \in Mark /\ NewMark(p).life = LifeOf(p) /\ NewMark(p).born = VersionOf(p)
           /\ NewMark(p).total = memory /\ NewMark(p).missed = {}
           /\ NewMark(p).reader = 0 /\ NewMark(p).prior = 0 /\ NewMark(p).from = 0 /\ NewMark(p).at = 0
           /\ LifeOf(p) \in Nat /\ VersionOf(p) \in Nat
  <1>1. Named({}, 0) \in Name
    BY DEF Named, Name
  <1>2. Percent(0, 0) \in Share
    BY PercentType
  <1>3. LifeOf(p) \in Nat /\ VersionOf(p) \in Nat
    BY DEF TableTypeOK, ImageTypeOK, LifeOf, VersionOf, Image
  <1>4. memory \in Nat
    BY DEF TableTypeOK
  <1>5. NewRecord.cpu = 0 /\ NewRecord.deltaCpu = 0 /\ NewRecord.name = ""
    BY DEF NewRecord
  <1>6. NewRecord \in Record
    <2>1. 0 \in Nat
      OBVIOUS
    <2> QED BY <1>1, <1>2, <2>1, Zenon DEF NewRecord, Record
  <1> QED BY <1>3, <1>4, <1>5, <1>6 DEF NewMark, Mark

LEMMA LifeBound ==
    ASSUME TableTypeOK, LifeInv, NEW p \in Pids
    PROVE  /\ LifeOf(p) \in Nat /\ VersionOf(p) \in Nat
           /\ LifeOf(p) <= changes /\ VersionOf(p) <= changes
           /\ ticks \in Nat /\ changes \in Nat
           /\ p \in running => LifeOf(p) = image[p].life /\ VersionOf(p) = image[p].version
  <1>1. ticks \in Nat /\ changes \in Nat
    BY DEF TableTypeOK, ImageTypeOK
  <1>2. p \in running => image[p].life \in 1..changes /\ image[p].version \in 1..changes
    BY DEF LifeInv
  <1> QED BY <1>1, <1>2 DEF LifeOf, VersionOf

LEMMA Created ==
    ASSUME TableTypeOK, NEW p \in Pids, Create(p)
    PROVE  /\ tracked' = tracked \cup {p} /\ processes' \in [tracked' -> Process]
           /\ record' \in [tracked' -> Record] /\ mark' \in [tracked' -> Mark]
           /\ record'[p] = NewRecord /\ mark'[p] = NewMark(p)
           /\ \A q \in tracked \ {p} : record'[q] = record[q] /\ mark'[q] = mark[q]
           /\ cur' = p /\ file' = "status" /\ p \in tracked'
           /\ memory' = memory /\ cpu' = cpu /\ deltaCpu' = deltaCpu /\ misses' = misses
  <1>1. NewRecord \in Record /\ NewMark(p) \in Mark /\ NewProcess \in Process
    BY NewFields DEF NewProcess, Process
  <1>2. record \in [tracked -> Record] /\ mark \in [tracked -> Mark] /\ processes \in [tracked -> Process]
    BY DEF TableTypeOK, MergeTypeOK
  <1>3. tracked' = tracked \cup {p} /\ processes' \in [tracked' -> Process]
    BY <1>1, <1>2 DEF Create, tracked
  <1> HIDE DEF tracked
  <1> QED BY <1>1, <1>2, <1>3 DEF Create

\* What no step of a call changes.
StillFrame == image' = image /\ changes' = changes /\ ticks' = ticks /\ running' = running

LEMMA AtFrame ==
    ASSUME NEW label, At(label)
    PROVE  pc = label /\ file = "none" /\ StillFrame
  BY DEF At, StillFrame, imageVars, running

\* The steps that leave records and marks alone.
QuietStep ==
    \/ \E opened \in BOOLEAN : InitCall(opened) \/ InitFails(opened)
    \/ \E opened \in BOOLEAN : UpdatePids(opened) \/ GetCpuTotal(opened)
    \/ UpdateCall \/ AdoptDone \/ MergeDone \/ Report

LEMMA Quiet ==
    ASSUME TableTypeOK, QuietStep
    PROVE  /\ StillFrame /\ file = "none" /\ file' = "none" /\ cur' = cur
           /\ processes' = processes /\ tracked' = tracked
           /\ record' = record /\ mark' = mark /\ misses' = misses
  <1> USE AtFrame DEF tableVars, mergeVars, callVars, Return, tracked
  <1>1. CASE \E opened \in BOOLEAN : InitCall(opened)
    BY <1>1 DEF InitCall
  <1>9. CASE \E opened \in BOOLEAN : InitFails(opened)
    BY <1>9 DEF InitFails
  <1>2. CASE \E opened \in BOOLEAN : UpdatePids(opened)
    BY <1>2 DEF UpdatePids
  <1>3. CASE \E opened \in BOOLEAN : GetCpuTotal(opened)
    BY <1>3 DEF GetCpuTotal
  <1>4. CASE UpdateCall
    BY <1>4 DEF UpdateCall
  <1>5. CASE AdoptDone
    BY <1>5 DEF AdoptDone
  <1>6. CASE MergeDone
    BY <1>6 DEF MergeDone
  <1>7. CASE Report
    BY <1>7 DEF Report
  <1> QED BY <1>1, <1>2, <1>3, <1>4, <1>5, <1>6, <1>7, <1>9 DEF QuietStep

LEMMA Erased ==
    ASSUME TableTypeOK, NEW q \in Pids, MergeErase(q)
    PROVE  /\ StillFrame /\ pc = "merge" /\ file = "none"
           /\ q \in procIt /\ procIt' = procIt \ {q} /\ pidIt' = pidIt /\ pids' = pids /\ before' = before
           /\ tracked' = tracked \ {q} /\ processes' \in [tracked' -> Process]
           /\ record' \in [tracked' -> Record] /\ mark' \in [tracked' -> Mark]
           /\ \A r \in tracked' : record'[r] = record[r] /\ mark'[r] = mark[r]
           /\ pc' = pc /\ op' = op /\ inits' = inits /\ updates' = updates /\ memory' = memory
           /\ cpu' = cpu /\ deltaCpu' = deltaCpu /\ cur' = cur /\ file' = file /\ seen' = seen
           /\ misses' = misses
  <1>1. record \in [tracked -> Record] /\ mark \in [tracked -> Mark] /\ processes \in [tracked -> Process]
    BY DEF TableTypeOK, MergeTypeOK
  <1>2. tracked' = tracked \ {q} /\ processes' \in [tracked' -> Process]
    BY <1>1 DEF MergeErase, Erase, tracked
  <1> HIDE DEF tracked
  <1>3. record' \in [tracked' -> Record] /\ mark' \in [tracked' -> Mark]
        /\ \A r \in tracked' : record'[r] = record[r] /\ mark'[r] = mark[r]
    BY <1>1, <1>2 DEF MergeErase
  <1> QED BY <1>2, <1>3, AtFrame DEF MergeErase, Erase, callVars, PointsTo

LEMMA Kept ==
    ASSUME TableTypeOK, procIt \subseteq tracked, NEW q \in Pids, MergeKeep(q)
    PROVE  /\ StillFrame /\ pc = "merge" /\ file = "none"
           /\ q \in procIt /\ q \in pidIt /\ q \in tracked
           /\ procIt' = procIt \ {q} /\ pidIt' = pidIt \ {q} /\ pids' = pids /\ before' = before
           /\ tracked' = tracked /\ processes' = processes
           /\ record' = record /\ mark' \in [tracked -> Mark]
           /\ mark'[q].life = LifeOf(q) /\ mark'[q].total = memory /\ mark'[q].born = mark[q].born
           /\ mark'[q].prior = mark[q].prior /\ mark'[q].reader = mark[q].reader
           /\ mark'[q].from = mark[q].from /\ mark'[q].at = mark[q].at /\ mark'[q].missed = {}
           /\ \A r \in tracked \ {q} : mark'[r] = mark[r]
           /\ pc' = pc /\ op' = op /\ inits' = inits /\ updates' = updates /\ memory' = memory
           /\ cpu' = cpu /\ deltaCpu' = deltaCpu /\ cur' = q /\ file' = "status" /\ seen' = seen
           /\ misses' = misses
  <1>1. mark \in [tracked -> Mark] /\ LifeOf(q) \in Nat /\ memory \in Nat
    BY NewFields DEF TableTypeOK
  <1>2. q \in tracked /\ q \in procIt /\ q \in pidIt
    BY DEF MergeKeep, Keep, PointsTo
  <1>3. MarkTurn(mark[q], LifeOf(q)) \in Mark
    BY <1>1, <1>2, MarkTurnFields
  <1>4. mark' \in [tracked -> Mark] /\ mark'[q] = MarkTurn(mark[q], LifeOf(q))
        /\ \A r \in tracked \ {q} : mark'[r] = mark[r]
    BY <1>1, <1>2, <1>3 DEF MergeKeep
  <1>5. tracked' = tracked
    BY DEF MergeKeep, Keep, tracked
  <1> DEFINE m == mark[q]
             life == LifeOf(q)
             n == mark'[q]
  <1>6. n.life = life /\ n.total = memory /\ n.born = m.born /\ n.prior = m.prior
        /\ n.reader = m.reader /\ n.from = m.from /\ n.at = m.at /\ n.missed = {}
    <2>1. m \in Mark /\ life \in Nat /\ memory \in Nat /\ n = MarkTurn(m, life)
      BY <1>1, <1>2, <1>4
    <2> HIDE DEF m, life, n
    <2> QED BY <2>1, MarkTurnFields
  <1> QED BY <1>2, <1>4, <1>5, <1>6, AtFrame DEF MergeKeep, Keep, callVars
-----------------------------------------------------------------------------
(* Types, the clock and the lives                                          *)

LEMMA BaseInit == Init => BaseInv
  <1> SUFFICES ASSUME Init PROVE BaseInv
    OBVIOUS
  <1>1. First \in Look /\ MaxTicks \in Nat
    BY ImageAssumption
  <1>2. running = Pids /\ \A p \in Pids : image[p] \in Image /\ image[p].life = 1
                                            /\ image[p].version = 1 /\ image[p].cpu = 0
    BY <1>1 DEF Init, ImageInit, running, Image
  <1>3. ImageTypeOK /\ changes = 1 /\ ticks = 0
    BY <1>2 DEF Init, ImageInit, ImageTypeOK, running
  <1>4. tracked = {} /\ MergeTypeOK
    BY DEF Init, tracked, MergeTypeOK
  <1>5. record \in [tracked -> Record] /\ mark \in [tracked -> Mark] /\ DOMAIN seen = {}
    BY <1>4 DEF Init
  <1>6. TableTypeOK
    BY <1>3, <1>4, <1>5 DEF Init, TableTypeOK, Files
  <1>7. ClockInv /\ LifeInv
    BY <1>1, <1>2, <1>3, <1>4, <1>5 DEF Init, ClockInv, LifeInv
  <1> QED BY <1>6, <1>7 DEF BaseInv

LEMMA BaseParse ==
    ASSUME BaseInv, Parse
    PROVE  BaseInv'
  <1>0. TableTypeOK /\ ClockInv /\ LifeInv
    BY DEF BaseInv
  <1>1. ParseFrame /\ file # "none" /\ record' \in [tracked -> Record] /\ mark' \in [tracked -> Mark]
        /\ (\A q \in tracked \ {cur} : record'[q] = record[q] /\ mark'[q] = mark[q])
        /\ cur' = (IF file' = "none" THEN -1 ELSE cur) /\ file' \in Files \cup {"none"}
        /\ misses' \in Nat
    BY <1>0, ParseStep DEF Files
  <1>2. TableTypeOK'
    BY <1>0, <1>1 DEF TableTypeOK, ParseFrame, MergeTypeOK, ImageTypeOK, Files
  <1>3. record'[cur].cpu <= ticks /\ mark'[cur].born <= changes /\ mark'[cur].life <= changes
          /\ mark'[cur].reader <= changes
    <2>0. /\ cur \in tracked /\ record[cur] \in Record /\ mark[cur] \in Mark
          /\ record[cur].cpu <= ticks /\ record[cur].cpu <= MaxTicks
          /\ mark[cur].born <= changes /\ mark[cur].life <= changes /\ mark[cur].reader <= changes
          /\ memory \in Nat /\ deltaCpu \in Nat /\ ticks \in Nat
          /\ VersionOf(cur) \in Nat /\ LifeOf(cur) \in Nat
          /\ cur \in running => Shown \in Look /\ image[cur].cpu \in Nat
      BY <1>0, <1>1, CurType DEF ClockInv, LifeInv
    <2>1. cur \in running => image[cur].cpu <= ticks /\ LifeOf(cur) <= changes
      BY <1>0 DEF ClockInv, LifeInv, LifeOf, TableTypeOK, ImageTypeOK
    <2>2. Returned \/ StatusRead \/ CmdlineRead \/ IoRead \/ FdsRead \/ StatRead
      BY <1>0, ParseFields
    <2>3. LifeOf(cur) = image[cur].life \/ cur \notin running
      BY DEF LifeOf
    <2> QED BY <2>0, <2>1, <2>2, <2>3
            DEF Returned, StatusRead, CmdlineRead, IoRead, FdsRead, StatRead, CpuKept, MarkKept
  <1>4. ClockInv'
    BY <1>0, <1>1, <1>3 DEF ClockInv, ParseFrame
  <1>5. LifeInv'
    BY <1>0, <1>1, <1>3 DEF LifeInv, ParseFrame
  <1> QED BY <1>2, <1>4, <1>5 DEF BaseInv

LEMMA BaseSystem ==
    ASSUME BaseInv, SystemStep
    PROVE  BaseInv'
  <1>0. TableTypeOK /\ ClockInv /\ LifeInv
    BY DEF BaseInv
  <1>1. /\ ImageTypeOK' /\ ticks <= ticks' /\ ticks' <= MaxTicks /\ changes <= changes'
        /\ \A p \in running' : RunsOn(p) \/ Starts(p)
    BY <1>0, ImageStep DEF SystemStep, TableTypeOK, ClockInv
  <1>2. /\ tracked' = tracked /\ UNCHANGED <<mergeVars, callVars, tableVars, seen>>
        /\ ticks \in Nat /\ ticks' \in Nat /\ changes \in Nat /\ changes' \in Nat
        /\ \A p \in running' : image'[p].cpu \in Nat
        /\ \A p \in running : image[p].cpu \in Nat
    BY <1>0, <1>1 DEF SystemStep, mergeVars, tracked, TableTypeOK, ImageTypeOK, Image
  <1>3. TableTypeOK'
    BY <1>0, <1>1, <1>2 DEF TableTypeOK, MergeTypeOK, mergeVars, callVars, tableVars
  <1>4. cpu \in Nat /\ \A p \in tracked : record[p].cpu \in Nat /\ mark[p] \in Mark
    BY <1>0 DEF TableTypeOK, Record
  <1>5. ClockInv'
    <2>1. \A p \in running' : image'[p].cpu <= ticks'
      BY <1>0, <1>1, <1>2 DEF ClockInv, RunsOn, Starts
    <2> QED BY <1>0, <1>1, <1>2, <1>4, <2>1 DEF ClockInv, tableVars
  <1>6. LifeInv'
    <2>1. \A p \in running' : image'[p].life \in 1..changes' /\ image'[p].version \in 1..changes'
      BY <1>0, <1>1, <1>2 DEF LifeInv, RunsOn, Starts
    <2>2. \A p \in DOMAIN seen : seen[p] \in Nat
      BY <1>0 DEF TableTypeOK
    <2> QED BY <1>0, <1>1, <1>2, <1>4, <2>1, <2>2 DEF LifeInv, tableVars, Mark
  <1> QED BY <1>3, <1>5, <1>6 DEF BaseInv

LEMMA BaseQuiet ==
    ASSUME BaseInv, QuietStep
    PROVE  BaseInv'
  <1>0. TableTypeOK /\ ClockInv /\ LifeInv
    BY DEF BaseInv
  <1>1. /\ StillFrame /\ file' = "none" /\ file = "none" /\ cur' = cur
        /\ processes' = processes /\ tracked' = tracked /\ record' = record /\ mark' = mark
        /\ misses' = misses
    BY <1>0, Quiet
  <1>2. /\ ticks \in Nat /\ cpu \in Nat /\ deltaCpu \in Nat /\ cpu <= ticks /\ deltaCpu <= cpu
        /\ memory \in Nat /\ inits \in Nat /\ updates \in Nat
        /\ pids \in SUBSET Pids /\ pidIt \in SUBSET Pids /\ procIt \in SUBSET Pids
        /\ before \in SUBSET Pids /\ tracked \in SUBSET Pids /\ running \in SUBSET Pids
    BY <1>0 DEF TableTypeOK, ClockInv, MergeTypeOK, ImageTypeOK
  <1>3. /\ pids' \in SUBSET Pids /\ pidIt' \in SUBSET Pids /\ procIt' \in SUBSET Pids
        /\ before' \in SUBSET Pids
        /\ pc' \in {"idle", "list", "adopt", "packets", "merge", "report"}
        /\ op' \in {"none", "init", "update"} /\ inits' \in Nat /\ updates' \in Nat
        /\ memory' \in Nat /\ cpu' \in Nat /\ deltaCpu' \in Nat /\ cpu' <= ticks /\ deltaCpu' <= cpu'
    <2> USE <1>0, <1>2, WordFacts DEF TableTypeOK, Return, mergeVars, callVars, tableVars
    <2>1. CASE \E opened \in BOOLEAN : InitCall(opened)
      BY <2>1 DEF InitCall
    <2>9. CASE \E opened \in BOOLEAN : InitFails(opened)
      BY <2>9 DEF InitFails
    <2>2. CASE \E opened \in BOOLEAN : UpdatePids(opened)
      BY <2>2 DEF UpdatePids
    <2>3. CASE \E opened \in BOOLEAN : GetCpuTotal(opened)
      <3>1. PICK opened \in BOOLEAN : GetCpuTotal(opened)
        BY <2>3
      <3>2. CASE opened
        <4>1. deltaCpu' = Minus(ticks, cpu) /\ cpu' = ticks /\ memory' = memory
          BY <3>1, <3>2 DEF GetCpuTotal
        <4>2. cpu' \in Nat /\ deltaCpu' \in Nat /\ cpu' <= ticks /\ deltaCpu' <= cpu'
          BY <4>1 DEF Minus
        <4> QED BY <3>1, <3>2, <4>1, <4>2 DEF GetCpuTotal
      <3>3. CASE ~opened
        BY <3>1, <3>3 DEF GetCpuTotal
      <3> QED BY <3>2, <3>3
    <2>4. CASE UpdateCall
      BY <2>4 DEF UpdateCall
    <2>5. CASE AdoptDone
      BY <2>5 DEF AdoptDone
    <2>6. CASE MergeDone
      BY <2>6 DEF MergeDone
    <2>7. CASE Report
      BY <2>7 DEF Report
    <2> QED BY <2>1, <2>2, <2>3, <2>4, <2>5, <2>6, <2>7, <2>9 DEF QuietStep
  <1>4. /\ DOMAIN seen' \in SUBSET Pids /\ seen' \in [DOMAIN seen' -> Nat]
        /\ \A p \in DOMAIN seen' : seen'[p] <= changes
    <2>1. \A p \in Pids : VersionOf(p) \in Nat /\ VersionOf(p) <= changes
      BY <1>0 DEF TableTypeOK, ImageTypeOK, Image, LifeInv, VersionOf
    <2>2. CASE seen' = seen
      BY <1>0, <2>2 DEF TableTypeOK, LifeInv
    <2>3. CASE seen' = [p \in {} |-> 0]
      BY <2>3
    <2>4. CASE seen' = [p \in pids' |-> VersionOf(p)]
      BY <1>3, <2>1, <2>4
    <2> QED
      BY <2>2, <2>3, <2>4
      DEF QuietStep, InitCall, InitFails, UpdatePids, GetCpuTotal, UpdateCall, AdoptDone, MergeDone, Report,
          Return
  <1>5. TableTypeOK'
    BY <1>0, <1>1, <1>3, <1>4 DEF TableTypeOK, MergeTypeOK, ImageTypeOK, StillFrame
  <1>6. ClockInv'
    BY <1>0, <1>1, <1>3 DEF ClockInv, StillFrame
  <1>7. LifeInv'
    BY <1>0, <1>1, <1>4 DEF LifeInv, StillFrame
  <1> QED BY <1>5, <1>6, <1>7 DEF BaseInv

\* The loop of Init and the packets create records.
LEMMA Adopted ==
    ASSUME NEW p \in Pids, AdoptPid(p) \/ AdoptOwner(p), TableTypeOK
    PROVE  /\ StillFrame /\ file = "none" /\ pc \in {"adopt", "packets"} /\ Create(p)
           /\ pids' = pids /\ procIt' = procIt /\ before' = before /\ pidIt' \subseteq pidIt
           /\ pc' = pc /\ op' = op /\ inits' = inits /\ updates' = updates /\ seen' = seen
  BY AtFrame DEF AdoptPid, AdoptOwner, callVars

LEMMA BaseAdopt ==
    ASSUME BaseInv, NEW p \in Pids, AdoptPid(p) \/ AdoptOwner(p)
    PROVE  BaseInv'
  <1>0. TableTypeOK /\ ClockInv /\ LifeInv
    BY DEF BaseInv
  <1>1. /\ tracked' = tracked \cup {p} /\ processes' \in [tracked' -> Process]
        /\ record' \in [tracked' -> Record] /\ mark' \in [tracked' -> Mark]
        /\ record'[p] = NewRecord /\ mark'[p] = NewMark(p)
        /\ \A q \in tracked \ {p} : record'[q] = record[q] /\ mark'[q] = mark[q]
        /\ cur' = p /\ file' = "status"
        /\ memory' = memory /\ cpu' = cpu /\ deltaCpu' = deltaCpu /\ misses' = misses
    BY <1>0, Adopted, Created
  <1>2. TableTypeOK'
    BY <1>0, <1>1, Adopted DEF TableTypeOK, MergeTypeOK, ImageTypeOK, StillFrame, Files
  <1>3. /\ NewRecord.cpu = 0 /\ NewMark(p).life = LifeOf(p) /\ NewMark(p).born = VersionOf(p)
        /\ NewMark(p).reader = 0 /\ LifeOf(p) <= changes /\ VersionOf(p) <= changes
        /\ ticks \in Nat /\ changes \in Nat
    BY <1>0, NewFields, LifeBound
  <1>4. ClockInv'
    BY <1>0, <1>1, <1>3, Adopted DEF ClockInv, StillFrame
  <1>5. LifeInv'
    BY <1>0, <1>1, <1>3, Adopted DEF LifeInv, StillFrame
  <1> QED BY <1>2, <1>4, <1>5 DEF BaseInv

LEMMA BaseMerge ==
    ASSUME BaseInv, pc = "merge" => procIt \subseteq tracked,
           NEW q \in Pids, MergeErase(q) \/ MergeKeep(q)
    PROVE  BaseInv'
  <1>0. TableTypeOK /\ ClockInv /\ LifeInv
    BY DEF BaseInv
  <1>1. CASE MergeErase(q)
    <2>1. TableTypeOK'
      BY <1>0, <1>1, Erased DEF TableTypeOK, MergeTypeOK, ImageTypeOK, StillFrame
    <2>2. ClockInv' /\ LifeInv'
      BY <1>0, <1>1, Erased DEF ClockInv, LifeInv, StillFrame
    <2> QED BY <2>1, <2>2 DEF BaseInv
  <1>2. CASE MergeKeep(q)
    <2>0. procIt \subseteq tracked
      BY <1>2 DEF MergeKeep, At
    <2>1. TableTypeOK'
      BY <1>0, <1>2, <2>0, Kept DEF TableTypeOK, MergeTypeOK, ImageTypeOK, StillFrame, Files
    <2>2. /\ mark'[q].born = mark[q].born /\ mark'[q].life = LifeOf(q) /\ mark'[q].reader = mark[q].reader
          /\ LifeOf(q) <= changes
      BY <1>0, <1>2, <2>0, Kept, LifeBound
    <2>3. ClockInv' /\ LifeInv'
      BY <1>0, <1>2, <2>0, <2>2, Kept DEF ClockInv, LifeInv, StillFrame
    <2> QED BY <2>1, <2>3 DEF BaseInv
  <1> QED BY <1>1, <1>2
-----------------------------------------------------------------------------
(* The loop                                                                *)

LEMMA LoopParse ==
    ASSUME BaseInv, LoopInv, Parse
    PROVE  LoopInv' /\ Visited' = Visited
  <1>1. ParseFrame /\ file # "none" /\ cur' = (IF file' = "none" THEN -1 ELSE cur)
    BY ParseStep DEF BaseInv
  <1>2. Visited' = Visited
    BY <1>1 DEF ParseFrame, Visited
  <1> QED BY <1>1, <1>2 DEF ParseFrame, LoopInv

LEMMA LoopSystem ==
    ASSUME LoopInv, SystemStep
    PROVE  LoopInv' /\ Visited' = Visited
  BY DEF SystemStep, LoopInv, Visited, tracked, mergeVars, callVars, tableVars

LEMMA LoopQuiet ==
    ASSUME BaseInv, LoopInv, QuietStep
    PROVE  LoopInv' /\ Visited' \subseteq Visited
  <1>1. file = "none" /\ file' = "none" /\ tracked' = tracked
    BY Quiet DEF BaseInv
  <1> USE <1>1 DEF LoopInv, Visited, mergeVars, callVars, Return
  <1>2. CASE \E opened \in BOOLEAN : InitCall(opened)
    BY <1>2 DEF InitCall
  <1>9. CASE \E opened \in BOOLEAN : InitFails(opened)
    BY <1>9 DEF InitFails
  <1>3. CASE \E opened \in BOOLEAN : UpdatePids(opened)
    BY <1>3 DEF UpdatePids
  <1>4. CASE \E opened \in BOOLEAN : GetCpuTotal(opened)
    BY <1>4 DEF GetCpuTotal, SizesDiffer, At
  <1>5. CASE UpdateCall
    BY <1>5 DEF UpdateCall
  <1>6. CASE AdoptDone
    BY <1>6 DEF AdoptDone
  <1>7. CASE MergeDone
    BY <1>7 DEF MergeDone, MergeOver, At
  <1>8. CASE Report
    BY <1>8 DEF Report
  <1> QED BY <1>2, <1>3, <1>4, <1>5, <1>6, <1>7, <1>8, <1>9 DEF QuietStep

LEMMA LoopAdopt ==
    ASSUME BaseInv, LoopInv, NEW p \in Pids, AdoptPid(p) \/ AdoptOwner(p)
    PROVE  LoopInv' /\ Visited' = {}
  <1>1. TableTypeOK
    BY DEF BaseInv
  <1>2. file' = "status"
    BY <1>1, Adopted, Created
  <1> QED BY <1>1, <1>2, Adopted DEF LoopInv, Visited

LEMMA LoopErase ==
    ASSUME BaseInv, LoopInv, NEW q \in Pids, MergeErase(q)
    PROVE  LoopInv' /\ Visited' \subseteq Visited
  <1>1. TableTypeOK
    BY DEF BaseInv
  <1> QED BY <1>1, Erased DEF LoopInv, Visited

LEMMA LoopKeep ==
    ASSUME BaseInv, LoopInv, NEW q \in Pids, MergeKeep(q)
    PROVE  LoopInv' /\ Visited' \subseteq Visited \cup {q} /\ procIt \subseteq tracked
  <1>1. TableTypeOK /\ procIt \subseteq tracked
    BY DEF BaseInv, LoopInv, MergeKeep, At
  <1> QED BY <1>1, Kept DEF LoopInv, Visited
-----------------------------------------------------------------------------
(* Processor time                                                          *)

\* The numbers of a tracked process.
LEMMA Numbers ==
    ASSUME BaseInv, NEW p \in tracked
    PROVE  /\ record[p].cpu \in Nat /\ record[p].deltaCpu \in Nat /\ record[p].cpu <= ticks
           /\ mark[p].from \in Nat /\ mark[p].at \in Nat /\ mark[p].reader \in Nat
           /\ mark[p].prior \in Nat /\ mark[p].life \in Nat /\ mark[p].born \in Nat
           /\ mark[p].reader <= changes /\ mark[p].life <= changes /\ mark[p].born <= changes
           /\ p \in Pids /\ ticks \in Nat /\ changes \in Nat
           /\ p \in running => /\ image[p].cpu \in Nat /\ image[p].life \in Nat /\ image[p].life > 0
                               /\ image[p].version \in Nat /\ image[p].version > 0
                               /\ image[p].cpu <= ticks
  <1>1. record[p] \in Record /\ mark[p] \in Mark /\ p \in Pids /\ ticks \in Nat /\ changes \in Nat
    BY DEF BaseInv, TableTypeOK, MergeTypeOK, ImageTypeOK
  <1>2. p \in running => image[p] \in Image
    BY DEF BaseInv, TableTypeOK, ImageTypeOK
  <1>3. record[p].cpu \in Nat /\ record[p].deltaCpu \in Nat
    BY <1>1 DEF Record
  <1>4. /\ mark[p].from \in Nat /\ mark[p].at \in Nat /\ mark[p].reader \in Nat
        /\ mark[p].prior \in Nat /\ mark[p].life \in Nat /\ mark[p].born \in Nat
    BY <1>1 DEF Mark
  <1>5. record[p].cpu <= ticks
    BY DEF BaseInv, ClockInv
  <1>6. mark[p].reader <= changes /\ mark[p].life <= changes /\ mark[p].born <= changes
    BY DEF BaseInv, LifeInv
  <1>7. ASSUME p \in running
        PROVE  /\ image[p].cpu \in Nat /\ image[p].life \in Nat /\ image[p].version \in Nat
               /\ image[p].life > 0 /\ image[p].version > 0 /\ image[p].cpu <= ticks
    <2>1. image[p].cpu \in Nat /\ image[p].life \in Nat /\ image[p].version \in Nat
      BY <1>2, <1>7 DEF Image
    <2>2. image[p].life \in 1..changes /\ image[p].version \in 1..changes
      BY <1>7 DEF BaseInv, LifeInv
    <2>3. image[p].cpu <= ticks
      BY <1>7 DEF BaseInv, ClockInv
    <2> QED BY <1>1, <2>1, <2>2, <2>3
  <1> QED BY <1>1, <1>3, <1>4, <1>5, <1>6, <1>7

\* DeltaInv and DeltaSound for one process, with record r and mark m.
DeltaOf(p, r, m) ==
    /\ m.from <= m.at /\ m.at <= ticks
    /\ m.reader = 0 => r.cpu = 0 /\ m.at = 0
    /\ p \in running /\ m.reader \in {0, image[p].life} =>
          r.cpu <= image[p].cpu /\ image[p].cpu - r.cpu <= ticks - m.at
    /\ OneLife(m) => r.deltaCpu <= m.at - m.from

LEMMA DeltaParse ==
    ASSUME BaseInv, DeltaInv, DeltaSound, Parse
    PROVE  DeltaInv' /\ DeltaSound'
  <1>1. /\ ParseFrame /\ cur \in tracked
        /\ \A q \in tracked \ {cur} : record'[q] = record[q] /\ mark'[q] = mark[q]
    BY ParseStep, CurType DEF BaseInv
  <1>2. \A p \in tracked : DeltaOf(p, record[p], mark[p])
    BY DEF DeltaInv, DeltaSound, DeltaOf
  <1>3. DeltaOf(cur, record'[cur], mark'[cur])
    <2> DEFINE r == record[cur]
               n == record'[cur]
               m == mark[cur]
               k == mark'[cur]
    <2>0. DeltaOf(cur, r, m)
      BY <1>1, <1>2
    <2>1. CASE /\ n.cpu = r.cpu /\ n.deltaCpu = r.deltaCpu
               /\ k.prior = m.prior /\ k.reader = m.reader /\ k.from = m.from /\ k.at = m.at
      <3> HIDE DEF r, n, m, k
      <3>1. DeltaOf(cur, n, k)
        BY <2>0, <2>1 DEF DeltaOf, OneLife
      <3> QED BY <3>1 DEF n, k
    <2>2. CASE /\ cur \in running
               /\ n.cpu = image[cur].cpu /\ n.deltaCpu = Minus(image[cur].cpu, r.cpu)
               /\ k.prior = m.reader /\ k.reader = image[cur].life
               /\ k.from = m.at /\ k.at = ticks
      <3>1. /\ r.cpu \in Nat /\ m.at \in Nat /\ m.reader \in Nat /\ ticks \in Nat
            /\ image[cur].cpu \in Nat /\ image[cur].life \in Nat /\ image[cur].life > 0
        BY <1>1, <2>2, Numbers
      <3> HIDE DEF r, n, m, k
      <3>2. OneLife(k) => n.deltaCpu <= k.at - k.from
        BY <2>0, <2>2, <3>1 DEF DeltaOf, OneLife, Minus
      <3>3. DeltaOf(cur, n, k)
        BY <2>0, <2>2, <3>1, <3>2 DEF DeltaOf
      <3> QED BY <3>3 DEF n, k
    <2> QED
      BY <2>1, <2>2, ParseFields
      DEF BaseInv, Returned, StatusRead, CmdlineRead, IoRead, FdsRead, StatRead, CpuKept, MarkKept
  <1>4. \A p \in tracked : DeltaOf(p, record'[p], mark'[p])
    BY <1>1, <1>2, <1>3
  <1>5. image' = image /\ ticks' = ticks /\ running' = running /\ tracked' = tracked
    BY <1>1 DEF ParseFrame
  <1> QED BY <1>4, <1>5 DEF DeltaInv, DeltaSound, DeltaOf, OneLife

LEMMA DeltaSystem ==
    ASSUME BaseInv, DeltaInv, DeltaSound, SystemStep
    PROVE  DeltaInv' /\ DeltaSound'
  <1>1. /\ tracked' = tracked /\ record' = record /\ mark' = mark
        /\ ticks <= ticks' /\ changes <= changes' /\ ticks' \in Nat /\ changes' \in Nat
        /\ \A p \in running' : RunsOn(p) \/ Starts(p)
        /\ \A p \in running' : image'[p].cpu \in Nat
    BY ImageStep DEF BaseInv, TableTypeOK, ClockInv, SystemStep, tracked, mergeVars, tableVars,
                     ImageTypeOK, Image
  <1>2. DeltaSound'
    BY <1>1 DEF DeltaSound, OneLife
  <1>3. ASSUME NEW p \in tracked
        PROVE  /\ mark[p].at <= ticks'
               /\ p \in running' /\ mark[p].reader \in {0, image'[p].life} =>
                     /\ record[p].cpu <= image'[p].cpu
                     /\ image'[p].cpu - record[p].cpu <= ticks' - mark[p].at
    <2>1. mark[p].at <= ticks'
      BY <1>1, <1>3, Numbers DEF DeltaInv
    <2>2. ASSUME p \in running', RunsOn(p), mark[p].reader \in {0, image'[p].life}
          PROVE  /\ record[p].cpu <= image'[p].cpu
                 /\ image'[p].cpu - record[p].cpu <= ticks' - mark[p].at
      BY <1>1, <1>3, <2>2, Numbers DEF DeltaInv, RunsOn
    <2>3. ASSUME p \in running', Starts(p), mark[p].reader \in {0, image'[p].life}
          PROVE  /\ record[p].cpu <= image'[p].cpu
                 /\ image'[p].cpu - record[p].cpu <= ticks' - mark[p].at
      <3>1. mark[p].reader = 0
        BY <1>1, <1>3, <2>3, Numbers DEF Starts
      <3> QED BY <1>1, <1>3, <2>3, <3>1, Numbers DEF DeltaInv, Starts
    <2> QED BY <1>1, <2>1, <2>2, <2>3
  <1> QED BY <1>1, <1>2, <1>3 DEF DeltaInv

LEMMA DeltaCall ==
    ASSUME BaseInv, LoopInv, DeltaInv, DeltaSound, CallStep
    PROVE  DeltaInv' /\ DeltaSound'
  <1>0. TableTypeOK
    BY DEF BaseInv
  <1>1. CASE QuietStep
    BY <1>0, <1>1, Quiet DEF DeltaInv, DeltaSound, OneLife, StillFrame
  <1>2. ASSUME NEW p \in Pids, AdoptPid(p) \/ AdoptOwner(p)
        PROVE  DeltaInv' /\ DeltaSound'
    <2>1. /\ tracked' = tracked \cup {p} /\ record'[p].cpu = 0 /\ record'[p].deltaCpu = 0
          /\ mark'[p].reader = 0 /\ mark'[p].prior = 0 /\ mark'[p].from = 0 /\ mark'[p].at = 0
          /\ \A q \in tracked \ {p} : record'[q] = record[q] /\ mark'[q] = mark[q]
      BY <1>0, <1>2, Adopted, Created, NewFields
    <2>2. StillFrame /\ ticks \in Nat
      BY <1>0, <1>2, Adopted DEF TableTypeOK, ImageTypeOK
    <2>3. p \in running => image[p].cpu \in Nat /\ image[p].cpu <= ticks
      BY DEF BaseInv, TableTypeOK, ImageTypeOK, Image, ClockInv
    <2>4. DeltaInv'
      BY <2>1, <2>2, <2>3 DEF DeltaInv, StillFrame
    <2>5. DeltaSound'
      BY <2>1 DEF DeltaSound, OneLife
    <2> QED BY <2>4, <2>5
  <1>3. ASSUME NEW q \in Pids, MergeErase(q)
        PROVE  DeltaInv' /\ DeltaSound'
    BY <1>0, <1>3, Erased DEF DeltaInv, DeltaSound, OneLife, StillFrame
  <1>4. ASSUME NEW q \in Pids, MergeKeep(q)
        PROVE  DeltaInv' /\ DeltaSound'
    BY <1>0, <1>4, LoopKeep, Kept DEF DeltaInv, DeltaSound, OneLife, StillFrame
  <1> QED BY <1>1, <1>2, <1>3, <1>4 DEF CallStep, QuietStep
-----------------------------------------------------------------------------
(* Half-filled records and names                                           *)

\* The two halves of what is known of one process, with record r and mark m, when
\* the parse of record c has come to file f.
PastAt(p, files, c, f) == c = p => f \notin files

WholeOf(p, r, m, c, f) ==
    p \in running /\ image[p].life = m.life =>
        /\ PastAt(p, {"status"}, c, f) /\ "status" \notin m.missed => r.name # ""
        /\ /\ PastAt(p, {"status", "cmdline", "io", "fd"}, c, f)
           /\ {"status", "cmdline"} \cap m.missed = {}
           => r.memPercent = Percent(r.memory, m.total)

NameOf(p, r, m, c, f) ==
    p \in running /\ image[p].version = m.born =>
        /\ r.name \in {"", FirstWord[image[p].look.prog]}
        /\ PastAt(p, {"status"}, c, f) /\ "status" \notin m.missed =>
              r.name = FirstWord[image[p].look.prog]

LEMMA PartsOf ==
    /\ WholeInv <=> /\ \A p \in tracked : WholeOf(p, record[p], mark[p], cur, file)
                    /\ file # "none" => mark[cur].total = memory
    /\ NameInv <=> \A p \in tracked : NameOf(p, record[p], mark[p], cur, file)
  BY DEF WholeInv, NameInv, WholeOf, NameOf, Past, PastAt, Alive

\* A record that is not under parse before or after a step, and not changed by it.
LEMMA PartsKept ==
    ASSUME NEW p, NEW r, NEW m, NEW c, NEW f, NEW d, NEW g, p # c, p # d
    PROVE  /\ WholeOf(p, r, m, c, f) => WholeOf(p, r, m, d, g)
           /\ NameOf(p, r, m, c, f) => NameOf(p, r, m, d, g)
  BY DEF WholeOf, NameOf, PastAt

LEMMA WholeParse ==
    ASSUME BaseInv, WholeInv, NameInv, Parse
    PROVE  WholeInv' /\ NameInv'
  <1>1. /\ ParseFrame /\ cur \in tracked /\ cur \in Pids /\ file # "none"
        /\ \A q \in tracked \ {cur} : record'[q] = record[q] /\ mark'[q] = mark[q]
        /\ cur' = (IF file' = "none" THEN -1 ELSE cur)
        /\ cur \in running => Shown \in Look
    BY ParseStep, CurType DEF BaseInv
  <1>2. \A p \in tracked : p # -1
    BY PidsAssumption DEF BaseInv, TableTypeOK, MergeTypeOK
  <1>3. /\ mark[cur].total = memory
        /\ \A p \in tracked : /\ WholeOf(p, record[p], mark[p], cur, file)
                               /\ NameOf(p, record[p], mark[p], cur, file)
    BY <1>1, PartsOf
  <1>4. /\ mark'[cur].total = memory /\ mark'[cur].life = mark[cur].life
        /\ mark'[cur].born = mark[cur].born /\ mark[cur].missed \subseteq mark'[cur].missed
    BY <1>3, ParseFields
    DEF BaseInv, Returned, StatusRead, CmdlineRead, IoRead, FdsRead, StatRead, CpuKept, MarkKept
  <1>5. \A p \in tracked \ {cur} : /\ WholeOf(p, record'[p], mark'[p], cur', file')
                                   /\ NameOf(p, record'[p], mark'[p], cur', file')
    BY <1>1, <1>2, <1>3, PartsKept
  <1>6. /\ WholeOf(cur, record'[cur], mark'[cur], cur', file')
        /\ NameOf(cur, record'[cur], mark'[cur], cur', file')
    <2>0. /\ WholeOf(cur, record[cur], mark[cur], cur, file)
          /\ NameOf(cur, record[cur], mark[cur], cur, file)
      BY <1>1, <1>3
    <2> USE <1>1, <1>4 DEF WholeOf, NameOf, PastAt
    <2>1. CASE Returned
      <3>1. CASE cur \notin running
        BY <3>1
      <3>2. CASE cur \in running
        <4>1. record'[cur] = record[cur] /\ file \in mark'[cur].missed /\ cur' = -1
          BY <2>1, <3>2 DEF Returned
        <4>2. CASE file = "status"
          BY <2>0, <4>1, <4>2
        <4>3. CASE file = "cmdline"
          BY <2>0, <4>1, <4>3
        <4>4. CASE file = "stat"
          BY <1>3, <2>0, <4>1, <4>4
        <4> QED BY <2>1, <4>2, <4>3, <4>4 DEF Returned
      <3> QED BY <3>1, <3>2
    <2>2. CASE StatusRead
      <3>1. FirstWord[Shown.prog] # ""
        BY <2>2, WordType DEF StatusRead
      <3>2. record'[cur].name # "" /\ file' = "cmdline" /\ cur' = cur
        BY <2>2, <3>1 DEF StatusRead
      <3>3. image[cur].version = mark[cur].born =>
               record'[cur].name = FirstWord[image[cur].look.prog]
        BY <2>0, <2>2 DEF StatusRead, Shown
      <3> QED BY <3>2, <3>3
    <2>3. CASE CmdlineRead
      BY <2>0, <2>3 DEF CmdlineRead, StatusKept
    <2>4. CASE IoRead
      BY <2>0, <2>4 DEF IoRead, StatusKept
    <2>5. CASE FdsRead
      BY <2>0, <2>5 DEF FdsRead, StatusKept
    <2>6. CASE StatRead
      BY <1>2, <1>3, <2>0, <2>6 DEF StatRead, StatusKept
    <2> QED BY <2>1, <2>2, <2>3, <2>4, <2>5, <2>6, ParseFields DEF BaseInv
  <1>7. /\ \A p \in tracked : /\ WholeOf(p, record'[p], mark'[p], cur', file')
                              /\ NameOf(p, record'[p], mark'[p], cur', file')
        /\ file' # "none" => mark'[cur'].total = memory
    BY <1>1, <1>4, <1>5, <1>6
  <1>8. image' = image /\ running' = running /\ tracked' = tracked /\ memory' = memory
    BY <1>1 DEF ParseFrame
  <1> QED BY <1>7, <1>8 DEF WholeInv, NameInv, WholeOf, NameOf, Past, PastAt, Alive

LEMMA WholeSystem ==
    ASSUME BaseInv, WholeInv, NameInv, SystemStep
    PROVE  WholeInv' /\ NameInv'
  <1>1. /\ tracked' = tracked /\ record' = record /\ mark' = mark /\ cur' = cur /\ file' = file
        /\ memory' = memory /\ \A p \in running' : RunsOn(p) \/ Starts(p)
    BY ImageStep DEF BaseInv, TableTypeOK, ClockInv, SystemStep, tracked, mergeVars, tableVars
  <1>2. ASSUME NEW p \in tracked, p \in running'
        PROVE  /\ image'[p].life = mark[p].life => p \in running /\ image[p].life = mark[p].life
               /\ image'[p].version = mark[p].born =>
                     p \in running /\ image[p].version = mark[p].born /\ image'[p].look = image[p].look
    BY <1>1, <1>2, Numbers DEF RunsOn, Starts
  <1>3. WholeInv'
    BY <1>1, <1>2 DEF WholeInv, Past, Alive
  <1>4. NameInv'
    BY <1>1, <1>2 DEF NameInv, Past
  <1> QED BY <1>3, <1>4

LEMMA WholeCall ==
    ASSUME BaseInv, LoopInv, WholeInv, NameInv, CallStep
    PROVE  WholeInv' /\ NameInv'
  <1>0. TableTypeOK
    BY DEF BaseInv
  <1>1. CASE QuietStep
    BY <1>0, <1>1, Quiet DEF WholeInv, NameInv, Past, Alive, StillFrame
  <1>2. ASSUME NEW p \in Pids, AdoptPid(p) \/ AdoptOwner(p)
        PROVE  WholeInv' /\ NameInv'
    <2>1. /\ tracked' = tracked \cup {p} /\ record'[p].name = "" /\ mark'[p].total = memory
          /\ mark'[p].life = LifeOf(p) /\ mark'[p].born = VersionOf(p)
          /\ \A q \in tracked \ {p} : record'[q] = record[q] /\ mark'[q] = mark[q]
          /\ cur' = p /\ file' = "status" /\ memory' = memory
      BY <1>0, <1>2, Adopted, Created, NewFields
    <2>2. StillFrame /\ file = "none" /\ cur = -1
      BY <1>0, <1>2, Adopted DEF TableTypeOK
    <2>3. \A q \in tracked : q # -1
      BY <1>0, PidsAssumption DEF TableTypeOK, MergeTypeOK
    <2>4. WholeInv'
      BY <2>1, <2>2, <2>3 DEF WholeInv, Past, Alive, StillFrame
    <2>5. NameInv'
      <3>1. \A q \in tracked \ {p} : NameOf(q, record[q], mark[q], cur, file)
        BY PartsOf
      <3>2. \A q \in tracked \ {p} : NameOf(q, record'[q], mark'[q], cur', file')
        BY <2>1, <2>2, <2>3, <3>1 DEF NameOf, PastAt
      <3>3. NameOf(p, record'[p], mark'[p], cur', file')
        BY <2>1 DEF NameOf, PastAt
      <3>4. image' = image /\ running' = running
        BY <2>2 DEF StillFrame
      <3> QED BY <2>1, <3>2, <3>3, <3>4 DEF NameInv, NameOf, Past, PastAt
    <2> QED BY <2>4, <2>5
  <1>3. ASSUME NEW q \in Pids, MergeErase(q)
        PROVE  WholeInv' /\ NameInv'
    BY <1>0, <1>3, Erased DEF WholeInv, NameInv, Past, Alive, StillFrame
  <1>4. ASSUME NEW q \in Pids, MergeKeep(q)
        PROVE  WholeInv' /\ NameInv'
    <2>0. procIt \subseteq tracked
      BY <1>4, LoopKeep
    <2>1. /\ StillFrame /\ file = "none" /\ tracked' = tracked /\ record' = record
          /\ mark'[q].total = memory /\ mark'[q].born = mark[q].born /\ memory' = memory
          /\ \A r \in tracked \ {q} : mark'[r] = mark[r]
          /\ cur' = q /\ file' = "status"
      BY <1>0, <1>4, <2>0, Kept
    <2>2. WholeInv'
      BY <2>1 DEF WholeInv, Past, Alive, StillFrame
    <2>3. NameInv'
      <3> SUFFICES ASSUME NEW p \in tracked, p \in running, image[p].version = mark'[p].born
                   PROVE  /\ record[p].name \in {"", FirstWord[image[p].look.prog]}
                          /\ Past(p, {"status"})' /\ "status" \notin mark'[p].missed =>
                                record[p].name = FirstWord[image[p].look.prog]
        BY <2>1 DEF NameInv, StillFrame
      <3>1. mark'[p].born = mark[p].born
        BY <2>1
      <3> QED BY <2>1, <3>1 DEF NameInv, Past
    <2> QED BY <2>2, <2>3
  <1> QED BY <1>1, <1>2, <1>3, <1>4 DEF CallStep, QuietStep
-----------------------------------------------------------------------------
(* What the loop has passed                                                *)

\* FreshInv and ShareInv for one process, likewise.
FreshOf(p, r, c, f) ==
    LET look == image[p].look
    IN  /\ PastAt(p, {"status"}, c, f) =>
              /\ r.uid = look.uid /\ r.gid = look.gid
              /\ look.rss # 0 => r.memory = look.rss
        /\ PastAt(p, {"status", "cmdline"}, c, f) /\ look.rss # 0 => r.cmdline = FirstWord[look.prog]
        /\ PastAt(p, {"status", "cmdline", "io"}, c, f) /\ look.uid \notin Private =>
              r.io = image[p].version
        /\ PastAt(p, {"status", "cmdline", "io", "fd"}, c, f) =>
              /\ look.uid \notin Private => r.fds = image[p].version
              /\ r.gid \in Groups => r.user = Named(Users, r.uid) /\ r.group = Named(Groups, r.gid)

ShareOf(p, r, m, c) ==
    p \in running /\ image[p].life = m.life /\ c # p /\ m.missed \subseteq {"io", "fd"} =>
        r.cpuPercent = Percent(r.deltaCpu, deltaCpu)

LEMMA VisitedOf ==
    /\ FreshInv <=> \A p \in Visited :
                        Steady(p) /\ mark[p].missed = {} => FreshOf(p, record[p], cur, file)
    /\ ShareInv <=> \A p \in Visited : ShareOf(p, record[p], mark[p], cur)
  BY DEF FreshInv, ShareInv, FreshOf, ShareOf, Past, PastAt, Alive

LEMMA VisitedTracked == Visited \subseteq tracked
  BY DEF Visited

LEMMA FreshParse ==
    ASSUME BaseInv, LoopInv, FreshInv, ShareInv, Parse
    PROVE  FreshInv' /\ ShareInv'
  <1>1. /\ ParseFrame /\ cur \in tracked /\ cur \in Pids /\ file # "none"
        /\ \A q \in tracked \ {cur} : record'[q] = record[q] /\ mark'[q] = mark[q]
        /\ cur' = (IF file' = "none" THEN -1 ELSE cur)
    BY ParseStep, CurType DEF BaseInv
  <1>2. \A p \in tracked : p # -1
    BY PidsAssumption DEF BaseInv, TableTypeOK, MergeTypeOK
  <1>3. Visited' = Visited
    BY LoopParse
  <1>4. \A p \in Visited : /\ Steady(p) /\ mark[p].missed = {} => FreshOf(p, record[p], cur, file)
                           /\ ShareOf(p, record[p], mark[p], cur)
    BY VisitedOf
  <1>5. \A p \in Visited \ {cur} :
            /\ Steady(p) /\ mark'[p].missed = {} => FreshOf(p, record'[p], cur', file')
            /\ ShareOf(p, record'[p], mark'[p], cur')
    BY <1>1, <1>2, <1>4, VisitedTracked DEF FreshOf, ShareOf, PastAt
  <1>6. ASSUME cur \in Visited
        PROVE  /\ Steady(cur) /\ mark'[cur].missed = {} => FreshOf(cur, record'[cur], cur', file')
               /\ ShareOf(cur, record'[cur], mark'[cur], cur')
    <2>0. /\ mark'[cur].missed = {} => mark[cur].missed = {}
          /\ Steady(cur) /\ mark[cur].missed = {} => FreshOf(cur, record[cur], cur, file)
      BY <1>4, <1>6, ParseFields
      DEF BaseInv, Returned, StatusRead, CmdlineRead, IoRead, FdsRead, StatRead, CpuKept, MarkKept
    <2> USE <1>1 DEF FreshOf, ShareOf, PastAt
    <2>1. CASE Returned
      BY <2>1 DEF Returned, Steady
    <2>2. CASE StatusRead
      BY <2>2 DEF StatusRead, Shown
    <2>3. CASE CmdlineRead
      BY <2>0, <2>3 DEF CmdlineRead, StatusKept, Shown
    <2>4. CASE IoRead
      <3>1. Steady(cur) /\ mark'[cur].missed = {} /\ Shown.uid \notin Private =>
               record'[cur].io = image[cur].version
        BY <2>4 DEF IoRead, Readable, VersionOf, Steady
      <3> QED BY <2>0, <2>4, <3>1 DEF IoRead, StatusKept, Shown
    <2>5. CASE FdsRead
      <3>1. Steady(cur) /\ mark'[cur].missed = {} /\ Shown.uid \notin Private =>
               record'[cur].fds = image[cur].version
        BY <2>5 DEF FdsRead, Readable, VersionOf, Steady
      <3> QED BY <2>0, <2>5, <3>1 DEF FdsRead, StatusKept, Shown
    <2>6. CASE StatRead
      BY <1>2, <2>0, <2>6 DEF StatRead, StatusKept
    <2> QED BY <2>1, <2>2, <2>3, <2>4, <2>5, <2>6, ParseFields DEF BaseInv
  <1>7. \A p \in Visited :
            /\ Steady(p) /\ mark'[p].missed = {} => FreshOf(p, record'[p], cur', file')
            /\ ShareOf(p, record'[p], mark'[p], cur')
    BY <1>5, <1>6
  <1>8. image' = image /\ running' = running /\ seen' = seen /\ deltaCpu' = deltaCpu
    BY <1>1 DEF ParseFrame
  <1>9. FreshInv'
    BY <1>3, <1>7, <1>8 DEF FreshInv, FreshOf, Past, PastAt, Steady
  <1>10. ShareInv'
    BY <1>3, <1>7, <1>8 DEF ShareInv, ShareOf, Alive
  <1> QED BY <1>9, <1>10

LEMMA FreshSystem ==
    ASSUME BaseInv, LoopInv, FreshInv, ShareInv, SystemStep
    PROVE  FreshInv' /\ ShareInv'
  <1>1. /\ record' = record /\ mark' = mark /\ cur' = cur /\ file' = file
        /\ seen' = seen /\ deltaCpu' = deltaCpu /\ Visited' = Visited
        /\ \A p \in running' : RunsOn(p) \/ Starts(p)
    BY ImageStep, LoopSystem DEF BaseInv, TableTypeOK, ClockInv, SystemStep, tableVars
  <1>2. \A p \in DOMAIN seen : seen[p] \in Nat /\ seen[p] <= changes /\ changes \in Nat
    BY DEF BaseInv, TableTypeOK, LifeInv, ImageTypeOK
  <1>3. ASSUME NEW p \in tracked, p \in running'
        PROVE  /\ image'[p].life = mark[p].life => p \in running /\ image[p].life = mark[p].life
               /\ p \in DOMAIN seen /\ image'[p].version = seen[p] =>
                     p \in running /\ image[p].version = seen[p] /\ image'[p].look = image[p].look
    BY <1>1, <1>2, <1>3, Numbers DEF RunsOn, Starts
  <1>4. FreshInv'
    BY <1>1, <1>3, VisitedTracked DEF FreshInv, Past, Steady
  <1>5. ShareInv'
    BY <1>1, <1>3, VisitedTracked DEF ShareInv, Alive
  <1> QED BY <1>4, <1>5

\* A quiet step either empties the set or leaves alone what is known of it.
LEMMA QuietVisited ==
    ASSUME BaseInv, LoopInv, QuietStep
    PROVE  Visited' = {} \/ (Visited' \subseteq Visited /\ seen' = seen /\ deltaCpu' = deltaCpu)
  <1>1. tracked' = tracked /\ Visited' \subseteq Visited
    BY Quiet, LoopQuiet DEF BaseInv
  <1>2. CASE \E opened \in BOOLEAN : InitCall(opened)
    BY <1>1, <1>2 DEF InitCall
  <1>9. CASE \E opened \in BOOLEAN : InitFails(opened)
    BY <1>1, <1>9 DEF InitFails
  <1>3. CASE \E opened \in BOOLEAN : UpdatePids(opened)
    BY <1>3 DEF UpdatePids, Visited
  <1>4. CASE \E opened \in BOOLEAN : GetCpuTotal(opened)
    BY <1>1, <1>4 DEF GetCpuTotal, SizesDiffer, Visited, Return
  <1>5. CASE UpdateCall
    BY <1>1, <1>5 DEF UpdateCall, tableVars
  <1>6. CASE AdoptDone
    BY <1>6 DEF AdoptDone, Return, Visited
  <1>7. CASE MergeDone
    BY <1>1, <1>7 DEF MergeDone, tableVars
  <1>8. CASE Report
    BY <1>8 DEF Report, Return, Visited
  <1> QED BY <1>2, <1>3, <1>4, <1>5, <1>6, <1>7, <1>8, <1>9 DEF QuietStep

LEMMA FreshCall ==
    ASSUME BaseInv, LoopInv, FreshInv, ShareInv, CallStep
    PROVE  FreshInv' /\ ShareInv'
  <1>0. TableTypeOK
    BY DEF BaseInv
  <1>1. CASE QuietStep
    <2>1. /\ StillFrame /\ file' = file /\ cur' = cur /\ record' = record /\ mark' = mark
      BY <1>0, <1>1, Quiet
    <2> QED BY <1>1, <2>1, QuietVisited DEF FreshInv, ShareInv, Past, Steady, Alive, StillFrame
  <1>2. ASSUME NEW p \in Pids, AdoptPid(p) \/ AdoptOwner(p)
        PROVE  FreshInv' /\ ShareInv'
    BY <1>2, LoopAdopt DEF FreshInv, ShareInv
  <1>3. ASSUME NEW q \in Pids, MergeErase(q)
        PROVE  FreshInv' /\ ShareInv'
    <2>1. Visited' \subseteq Visited /\ Visited' \subseteq tracked'
      BY <1>3, LoopErase DEF Visited
    <2> QED BY <1>0, <1>3, <2>1, Erased DEF FreshInv, ShareInv, Past, Steady, Alive, StillFrame
  <1>4. ASSUME NEW q \in Pids, MergeKeep(q)
        PROVE  FreshInv' /\ ShareInv'
    <2>0. Visited' \subseteq Visited \cup {q} /\ procIt \subseteq tracked
      BY <1>4, LoopKeep
    <2>1. /\ StillFrame /\ file = "none" /\ cur = -1 /\ record' = record
          /\ deltaCpu' = deltaCpu /\ seen' = seen
          /\ \A r \in tracked \ {q} : mark'[r] = mark[r]
          /\ cur' = q /\ file' = "status"
      BY <1>0, <1>4, <2>0, Kept DEF TableTypeOK
    <2>2. \A p \in tracked : p # -1
      BY <1>0, PidsAssumption DEF TableTypeOK, MergeTypeOK
    <2>3. FreshInv'
      BY <2>0, <2>1, <2>2, VisitedTracked DEF FreshInv, Past, Steady, StillFrame
    <2>4. ShareInv'
      BY <2>0, <2>1, <2>2, VisitedTracked DEF ShareInv, Alive, StillFrame
    <2> QED BY <2>3, <2>4
  <1> QED BY <1>1, <1>2, <1>3, <1>4 DEF CallStep, QuietStep
-----------------------------------------------------------------------------
(* The theorems                                                            *)

LEMMA TableInit == Init => TableInv
  <1> SUFFICES ASSUME Init PROVE TableInv
    OBVIOUS
  <1>1. tracked = {} /\ pc = "idle" /\ file = "none"
    BY DEF Init, tracked
  <1>2. DeltaInv /\ DeltaSound /\ WholeInv /\ NameInv
    BY <1>1 DEF DeltaInv, DeltaSound, WholeInv, NameInv
  <1>3. LoopInv /\ Visited = {}
    BY <1>1 DEF LoopInv, Visited
  <1>4. FreshInv /\ ShareInv
    BY <1>3 DEF FreshInv, ShareInv
  <1> QED BY <1>2, <1>3, <1>4, BaseInit DEF TableInv

LEMMA TableStep == TableInv /\ [Next]_vars => TableInv'
  <1> SUFFICES ASSUME TableInv, [Next]_vars PROVE TableInv'
    OBVIOUS
  <1>0. BaseInv /\ DeltaInv /\ DeltaSound /\ WholeInv /\ NameInv /\ LoopInv /\ FreshInv /\ ShareInv
    BY DEF TableInv
  <1>1. CASE Parse
    BY <1>0, <1>1, BaseParse, LoopParse, DeltaParse, WholeParse, FreshParse DEF TableInv
  <1>2. CASE CallStep
    <2>1. BaseInv' /\ LoopInv'
      <3>1. CASE QuietStep
        BY <1>0, <3>1, BaseQuiet, LoopQuiet
      <3>2. ASSUME NEW p \in Pids, AdoptPid(p) \/ AdoptOwner(p)
            PROVE  BaseInv' /\ LoopInv'
        BY <1>0, <3>2, BaseAdopt, LoopAdopt
      <3>3. ASSUME NEW p \in Pids, MergeErase(p)
            PROVE  BaseInv' /\ LoopInv'
        BY <1>0, <3>3, BaseMerge, LoopErase DEF LoopInv
      <3>4. ASSUME NEW p \in Pids, MergeKeep(p)
            PROVE  BaseInv' /\ LoopInv'
        BY <1>0, <3>4, BaseMerge, LoopKeep
      <3> QED BY <1>2, <3>1, <3>2, <3>3, <3>4 DEF CallStep, QuietStep
    <2> QED BY <1>0, <1>2, <2>1, DeltaCall, WholeCall, FreshCall DEF TableInv
  <1>3. CASE SystemStep
    BY <1>0, <1>3, BaseSystem, LoopSystem, DeltaSystem, WholeSystem, FreshSystem DEF TableInv
  <1>4. CASE UNCHANGED vars
    <2>1. /\ UNCHANGED <<image, changes, ticks, pids, processes, pidIt, procIt, before>>
          /\ UNCHANGED <<pc, op, inits, updates, memory, cpu, deltaCpu, record, cur, file, mark, misses, seen>>
      BY <1>4 DEF vars, imageVars, mergeVars, callVars, tableVars
    <2>2. BaseInv'
      BY <1>0, <2>1 DEF BaseInv, TableTypeOK, ImageTypeOK, MergeTypeOK, ClockInv, LifeInv,
                        running, tracked
    <2>3. DeltaInv' /\ DeltaSound' /\ WholeInv' /\ NameInv'
      BY <1>0, <2>1 DEF DeltaInv, DeltaSound, OneLife, WholeInv, NameInv, Past, Alive, running, tracked
    <2>4. LoopInv' /\ Visited' = Visited
      BY <1>0, <2>1 DEF LoopInv, Visited, tracked
    <2>5. FreshInv' /\ ShareInv'
      BY <1>0, <2>1, <2>4 DEF FreshInv, ShareInv, Past, Steady, Alive, running
    <2> QED BY <2>2, <2>3, <2>4, <2>5 DEF TableInv
  <1> QED BY <1>1, <1>2, <1>3, <1>4 DEF Next

\* After a loop that ran, every tracked and listed process has been passed, and
\* no parse is under way.
LEMMA AllVisited ==
    ASSUME BaseInv, LoopInv, pc = "report", Cardinality(pids) # Cardinality(before)
    PROVE  /\ Visited = tracked \cap pids /\ DOMAIN seen = pids
           /\ cur = -1 /\ \A p \in tracked : p # -1
  <1>1. file = "none" /\ pids \cap procIt = {} /\ DOMAIN seen = pids
    BY DEF LoopInv
  <1>2. cur = -1
    BY <1>1 DEF BaseInv, TableTypeOK
  <1>3. \A p \in tracked : p # -1
    BY PidsAssumption DEF BaseInv, TableTypeOK, MergeTypeOK
  <1> QED BY <1>1, <1>2, <1>3 DEF Visited

\* The fields of the records, the iterators and the place of the call stay in
\* their ranges, whatever the processes do meanwhile.
THEOREM TableTypeCorrect == Spec => []TableTypeOK
  <1>1. TableInv => TableTypeOK
    BY DEF TableInv, BaseInv
  <1> QED BY <1>1, TableInit, TableStep, PTL DEF Spec

\* now - cpu of ParseStat wraps only if the pid was reused between two reads.
THEOREM DeltaCorrect == Spec => []DeltaSound
  <1>1. TableInv => DeltaSound
    BY DEF TableInv
  <1> QED BY <1>1, TableInit, TableStep, PTL DEF Spec

\* An early return of Parse leaves a record half filled only if the process went, or
\* if its status or cmdline file did not open.
THEOREM HalfFilledCorrect == Spec => []HalfFilledCause
  <1>1. TableInv => HalfFilledCause
    BY DEF TableInv, WholeInv, HalfFilledCause, Alive, Past, LifeOf
  <1> QED BY <1>1, TableInit, TableStep, PTL DEF Spec

\* After the loop has run, the report describes every listed process that has
\* not changed since the listing and whose files could be opened, by the first word
\* of its name and of its command line.
THEOREM ReportCorrect == Spec => []ReportedAsIs
  <1>1. ASSUME TableInv, pc = "report", Cardinality(pids) # Cardinality(before),
               NEW p \in tracked \cap pids, p \in running, image[p].version = seen[p],
               mark[p].missed = {}
        PROVE  /\ Describes(record[p], image[p])
               /\ mark[p].born = seen[p] => record[p].name = FirstWord[image[p].look.prog]
    <2>0. BaseInv /\ LoopInv /\ NameInv /\ FreshInv
      BY <1>1 DEF TableInv
    <2>1. Visited = tracked \cap pids /\ DOMAIN seen = pids /\ cur = -1 /\ p # -1
      BY <1>1, <2>0, AllVisited
    <2>2. Steady(p) /\ FreshOf(p, record[p], cur, file)
      BY <1>1, <2>0, <2>1, VisitedOf DEF Steady
    <2>3. Describes(record[p], image[p])
      BY <2>1, <2>2 DEF FreshOf, PastAt, Describes
    <2>4. mark[p].born = seen[p] => record[p].name = FirstWord[image[p].look.prog]
      BY <1>1, <2>0, <2>1 DEF NameInv, Past
    <2> QED BY <2>3, <2>4
  <1>2. TableInv => ReportedAsIs
    BY <1>1 DEF ReportedAsIs
  <1> QED BY <1>2, TableInit, TableStep, PTL DEF Spec

\* The share of the processors reported after the loop is at most the whole, if
\* the window of the process does not begin before that of /proc/stat and its parse
\* was not cut short.
THEOREM ShareCorrect == Spec => []ShareBounded
  <1>1. ASSUME TableInv, pc = "report", Cardinality(pids) # Cardinality(before),
               NEW p \in tracked \cap pids, p \in running, LifeOf(p) = mark[p].life,
               OneLife(mark[p]), mark[p].from >= cpu - deltaCpu,
               mark[p].missed \subseteq {"io", "fd"}
        PROVE  record[p].cpuPercent.num <= 100 * (record[p].cpuPercent.den + (mark[p].at - cpu))
    <2> DEFINE d == record[p].deltaCpu
               from == mark[p].from
               at == mark[p].at
               share == record[p].cpuPercent
    <2>0. BaseInv /\ LoopInv /\ DeltaInv /\ DeltaSound /\ ShareInv
      BY <1>1 DEF TableInv
    <2>1. share = Percent(d, deltaCpu)
      BY <1>1, <2>0, AllVisited, VisitedOf DEF ShareOf, LifeOf
    <2>2. /\ d \in Nat /\ from \in Nat /\ at \in Nat /\ d <= at - from /\ from <= at /\ at <= ticks
          /\ ticks \in Nat /\ ticks <= MaxTicks /\ cpu \in Nat /\ deltaCpu \in Nat /\ deltaCpu <= cpu
          /\ from >= cpu - deltaCpu
      BY <1>1, <2>0, Numbers DEF DeltaInv, DeltaSound, BaseInv, ClockInv, TableTypeOK
    <2> HIDE DEF d, from, at, share
    <2>3. (100 * d) % Word = 100 * d
      <3>1. 100 * d \in Nat /\ 100 * d < Word
        BY <2>2, WordFacts
      <3>2. \A x \in Nat : x < Word => x % Word = x
        BY WordFacts
      <3> QED BY <3>1, <3>2
    <2>4. CASE deltaCpu = 0
      <3>1. share.num = 0 /\ share.den = 1
        BY <2>1, <2>4 DEF Percent
      <3>2. 0 <= 100 * (1 + (at - cpu))
        BY <2>2, <2>4
      <3> QED BY <3>1, <3>2 DEF share, at
    <2>5. CASE deltaCpu # 0
      <3>1. share.num = 100 * d /\ share.den = deltaCpu
        BY <2>1, <2>3, <2>5 DEF Percent
      <3>2. 100 * d <= 100 * (deltaCpu + (at - cpu))
        BY <2>2
      <3> QED BY <3>1, <3>2 DEF share, at
    <2> QED BY <2>4, <2>5
  <1>2. TableInv => ShareBounded
    BY <1>1 DEF ShareBounded
  <1> QED BY <1>2, TableInit, TableStep, PTL DEF Spec
=============================================================================
